---- MODULE Spec2Model ----
(***************************************************************************)
(* Model of the AgentiCat A2A dashboard: the per-agent state store of the  *)
(* Home component and the session driver handleSendMessage with its        *)
(* streaming and non-streaming exchanges, handleFetchTask, handleRetry,    *)
(* handleNewConversation and handleDeleteAgent.                            *)
(*                                                                         *)
(* React state maps (Record<string, X>) are functions whose domain is the  *)
(* set of keys present.  An asynchronous handler is split at its awaits:   *)
(* the part before the await is one action, every continuation is another, *)
(* and the values the closure captured (selectedAgent, payload, ids) are   *)
(* kept in the record of the in-flight exchange.                           *)
(***************************************************************************)
EXTENDS Integers, Sequences, FiniteSets, TLC

\* ---------------------------------------------------------------- bounds
MaxOps == 2
MaxFrames == 2

\* ------------------------------------------------------- value universes
NoVal == "none"
AgentIds == {"a1", "a2"}
TaskIds == {"t1", "t2"}
Texts == {"hi"}
BlankText == "  "
\* The texts that also occur with white space around them
Trimmed == {"https://x/a"}
Padded(s) == " " \o s \o " "
States == {"working", "input-required", "completed"}
DEFAULT_METHOD == "message/send"
SUPPORTED_METHODS == {"message/send", "message/stream", "tasks/get"}
OverrideUrl == "http://override/rpc"

\* The agent cards that can be registered: a1 declares streaming, a2 does not.
Cards == [a \in AgentIds |-> [id |-> a, streaming |-> (a = "a1")]]

\* -------------------------------------------------- Record<string, X> maps
Has(map, k) == k \in DOMAIN map
Get(map, k, dflt) == IF k \in DOMAIN map THEN map[k] ELSE dflt
Put(map, k, v) == [x \in (DOMAIN map) \cup {k} |-> IF x = k THEN v ELSE map[x]]
Del(map, k) == [x \in (DOMAIN map) \ {k} |-> map[x]]
EmptyMap == [x \in {} |-> NoVal]

\* {...value, ...patch}: object spread
Spread(value, patch) ==
  [f \in DOMAIN value |-> IF f \in DOMAIN patch THEN patch[f] ELSE value[f]]
\* items.map((item) => item.id === id ? {...item, ...patch} : item)
PatchById(items, id, patch) ==
  [i \in 1..Len(items) |-> IF items[i].id = id THEN Spread(items[i], patch) ELSE items[i]]
\* The smallest member of a set of indices, 0 (for -1) when there is none
FirstOf(indices) ==
  IF indices = {} THEN 0 ELSE CHOOSE i \in indices : \A j \in indices : i <= j

\* --------------------------------------------------------------- payloads
\* A parts array: its members have a kind and, when text is a string, a text
\* (NoVal otherwise).  NoParts is a parts field that holds no array.
Part(kind, text) == [kind |-> kind, text |-> text]
TextPart(text) == Part("text", text)
Parts(items) == [isArray |-> TRUE, items |-> items]
NoParts == [isArray |-> FALSE, items |-> <<>>]
\* record.result: undefined, a string, or an object whose
\* message ?? content ?? text is maybeText (NoVal when that is no string)
Result(type, maybeText) == [type |-> type, maybeText |-> maybeText]
NoResult == Result("undefined", NoVal)

\* A parsed JSON value as the client reads it: a stream frame, or the body the
\* rpc route answers with.  Absent fields hold NoVal.  kind is the kind member
\* of an object ("none" when it has none), and for a value that is no object
\* its type: "null", "unset" (undefined), "string", "number", "array";
\* literal is the text of a string or the digits of a number.
\* error is the top-level error member: "none" (undefined or null), "string"
\* (error: "...", its text in errMessage), "object" (error: {code, message}) or
\* "other" (false, 0); dataError is data.error: "none" or "object"; errCode
\* and errMessage are the code and message of the error object, wherever it is.
\* statusMessage is status.message when it is a string, statusParts the parts
\* of a status.message that is an object of kind "message"; history and
\* artifacts are the arrays of that name, empty when the member is absent.
RichPayload(kind, id, contextId, state, statusMessage, statusParts, parts, history, artifacts, result, error, dataError, errCode, errMessage, literal) ==
  [kind |-> kind, id |-> id, contextId |-> contextId, state |-> state,
   statusMessage |-> statusMessage, statusParts |-> statusParts, parts |-> parts,
   history |-> history, artifacts |-> artifacts, result |-> result,
   error |-> error, dataError |-> dataError,
   errCode |-> errCode, errMessage |-> errMessage, literal |-> literal]
\* The payloads the exchanges of the page carry: a message has one text part
Payload(kind, id, contextId, state, statusMessage, text, error, errCode, errMessage) ==
  RichPayload(kind, id, contextId, state, statusMessage, NoParts,
              IF text = NoVal THEN NoParts ELSE Parts(<<TextPart(text)>>),
              <<>>, <<>>, NoResult, error, "none", errCode, errMessage, NoVal)
\* null (lastEventData before any frame) and "not yet set" (responsePayload?)
NullPayload == Payload("null", NoVal, NoVal, NoVal, NoVal, NoVal, "none", NoVal, NoVal)
Unset == Payload("unset", NoVal, NoVal, NoVal, NoVal, NoVal, "none", NoVal, NoVal)

CtxOf(t) == IF t = "t1" THEN "c1" ELSE "c2"
TaskFrame(t, st) == Payload("task", t, CtxOf(t), st, NoVal, NoVal, "none", NoVal, NoVal)
MessageFrame == Payload("message", NoVal, "c1", NoVal, NoVal, "pong", "none", NoVal, NoVal)
\* data: {"error": "Stream failed"} as the stream route emits when the SDK throws
StreamErrorFrame ==
  Payload("none", NoVal, NoVal, NoVal, NoVal, NoVal, "string", NoVal, "Stream failed")
\* {"error": {"code": -32601, "message": "Method not found"}}
RpcErrorFrame ==
  Payload("none", NoVal, NoVal, NoVal, NoVal, NoVal, "object", "-32601", "Method not found")
\* a task whose status.state is "failed", with no error member
FailedTaskFrame == TaskFrame("t1", "failed")
\* a task whose status.message is a string
StatusFrame ==
  Payload("task", "t1", "c1", "working", "thinking", NoVal, "none", NoVal, NoVal)
Frames ==
  {TaskFrame(t, st) : t \in TaskIds, st \in States}
    \cup {MessageFrame, StreamErrorFrame, RpcErrorFrame, FailedTaskFrame, StatusFrame}

\* The body of the rpc route's answer: {ok: true, status: 200, data} or
\* {ok: false, error}.
RpcOk(p) == [ok |-> TRUE, data |-> p, error |-> NoVal]
RpcFail(msg) == [ok |-> FALSE, data |-> NullPayload, error |-> msg]
RpcReplies == {RpcOk(p) : p \in Frames} \cup {RpcFail("HTTP 500: Internal Server Error")}
\* The reply object itself seen as a payload (data.data ?? data when data.data is absent)
ReplyAsPayload(reply) ==
  Payload("none", NoVal, NoVal, NoVal, NoVal, NoVal, "string", NoVal, reply.error)

\* Values that are no object: extractErrorSummary and the record branches of
\* extractResponseText pass them by (an array is an object)
NonObjects == {"null", "unset", "string", "number"}
IsObject(data) == data.kind \notin NonObjects
\* typeof error.code === "number"
Numerals == {"-32601", "0"}

\* Variant of the error lookup that reads the top-level member only.
errorOfTopLevel(data) == data.error
\* record.error ?? record.data?.error
errorOf(data) == IF data.error # "none" THEN data.error ELSE data.dataError

extractErrorSummary(data) ==
  IF ~IsObject(data) THEN NoVal
  ELSE
    LET error == errorOf(data)
        code == IF data.errCode \in Numerals THEN data.errCode ELSE NoVal
        message == data.errMessage
    IN IF error # "object" THEN NoVal
       ELSE IF code # NoVal /\ message # NoVal /\ message # ""
              THEN "Agent error " \o code \o ": " \o message
       ELSE IF message # NoVal /\ message # "" THEN "Agent error: " \o message
       ELSE IF code # NoVal THEN "Agent error " \o code
       ELSE "Agent returned an error."

\* The text of the first part of kind "text" whose text is a string; NoVal
\* (for null) when there is none
extractTextFromParts(parts) ==
  LET found == {i \in 1..Len(parts) : parts[i].kind = "text" /\ parts[i].text # NoVal}
  IN IF found = {} THEN NoVal ELSE parts[FirstOf(found)].text

NL == "\n"
\* text.split("\n").join("\n> "), on the texts artifacts carry
QuoteLines(text) == IF text = "a" \o NL \o "b" THEN "a" \o NL \o "> b" ELSE text
\* The block pushed for one artifact; the paperclip sign is written [clip]
\* and the code fence of three backquotes [fence]
ArtifactBlock(name, text) ==
  "> [clip] **" \o name \o "**" \o NL \o ">" \o NL \o "> [fence]json" \o NL
  \o "> " \o QuoteLines(text) \o NL \o "> [fence]"
\* artifactParts.join("\n\n")
JoinBlocks(blocks) ==
  LET joined[i \in 0..Len(blocks)] ==
        IF i = 0 THEN ""
        ELSE IF i = 1 THEN blocks[1]
        ELSE joined[i - 1] \o NL \o NL \o blocks[i]
  IN joined[Len(blocks)]
WithText(artifact) ==
  /\ artifact.parts.isArray
  /\ extractTextFromParts(artifact.parts.items) \notin {NoVal, ""}
BlockOf(artifact) ==
  ArtifactBlock(IF artifact.name # NoVal THEN artifact.name ELSE "artifact",
                extractTextFromParts(artifact.parts.items))
\* NoVal (for null), or the section of the artifacts that have a text
extractArtifactsInfo(artifacts) ==
  LET shown == SelectSeq(artifacts, WithText)
      artifactParts == [i \in 1..Len(shown) |-> BlockOf(shown[i])]
      header == IF Len(artifactParts) = 1 THEN "**Artifact:**" ELSE "**Artifacts:**"
  IN IF Len(artifacts) = 0 \/ Len(artifactParts) = 0 THEN NoVal
     ELSE NL \o NL \o header \o NL \o NL \o JoinBlocks(artifactParts)

\* JSON.stringify(value, null, 2): the text of the value, and undefined (NoVal)
\* for undefined; an object is written {json}
formatJson(data) ==
  CASE data.kind = "null" -> "null"
    [] data.kind = "unset" -> NoVal
    [] data.kind = "string" -> "\"" \o data.literal \o "\""
    [] data.kind = "number" -> data.literal
    [] data.kind = "array" -> "[]"
    [] OTHER -> "{json}"

\* 1. status.message: a non-empty string, or the text of a message object
StatusMessageText(record) ==
  IF record.statusMessage # NoVal
    THEN record.statusMessage
  ELSE IF record.statusParts.isArray
         /\ extractTextFromParts(record.statusParts.items) # NoVal
    THEN extractTextFromParts(record.statusParts.items)
  ELSE ""
IsAgentText(msg) ==
  /\ msg.role = "agent" /\ msg.parts.isArray
  /\ extractTextFromParts(msg.parts.items) \notin {NoVal, ""}
\* 2. the text of the last history entry of the agent that has one
HistoryText(history) ==
  LET agentTexts == {i \in 1..Len(history) : IsAgentText(history[i])}
  IN IF agentTexts = {} THEN ""
     ELSE extractTextFromParts(
            history[CHOOSE i \in agentTexts : \A j \in agentTexts : j <= i].parts.items)
\* Variant of the conversational content that lets the history win over
\* status.message.
ConversationTextHistoryFirst(record) ==
  IF HistoryText(record.history) # "" THEN HistoryText(record.history)
  ELSE StatusMessageText(record)
\* What steps 1 and 2 push: status.message, failing that the history
ConversationText(record) ==
  IF StatusMessageText(record) # "" THEN StatusMessageText(record)
  ELSE HistoryText(record.history)
\* responseParts.join("") of a task: steps 1 to 3; "" when nothing was pushed
TaskContent(record) ==
  ConversationText(record)
  \o (IF extractArtifactsInfo(record.artifacts) # NoVal
      THEN extractArtifactsInfo(record.artifacts) ELSE "")

\* 5. the sentence of the state
StateSentence(state) ==
  CASE state = "submitted" -> "Task submitted, waiting for agent..."
    [] state = "working" -> "Agent is working on your request..."
    [] state = "input-required" -> "Agent requires additional input."
    [] state = "completed" -> "Task completed."
    [] state = "failed" -> "Task failed."
    [] state = "canceled" -> "Task was canceled."
    [] OTHER -> "Task status: " \o (IF state \in {NoVal, ""} THEN "unknown" ELSE state)

extractResponseText(data) ==
  IF IsObject(data) /\ data.error = "string" THEN data.errMessage
  ELSE IF extractErrorSummary(data) # NoVal THEN extractErrorSummary(data)
  ELSE IF data.kind = "string" THEN data.literal
  ELSE IF IsObject(data) /\ data.kind = "task" THEN
    IF TaskContent(data) # "" THEN TaskContent(data) ELSE StateSentence(data.state)
  ELSE IF IsObject(data) /\ data.kind = "message" /\ data.parts.isArray
          /\ extractTextFromParts(data.parts.items) \notin {NoVal, ""}
    THEN extractTextFromParts(data.parts.items)
  ELSE IF IsObject(data) /\ data.result.type = "string" THEN data.result.maybeText
  ELSE IF IsObject(data) /\ data.result.type = "object" /\ data.result.maybeText # NoVal
    THEN data.result.maybeText
  ELSE formatJson(data)

VARIABLES
  agents,                  \* AgentCardNormalized[]: sequence of cards
  selectedAgentId,         \* string | null
  messagesByAgent,
  rpcLogsByAgent,
  endpointByAgent,
  endpointOverrideByAgent,
  methodByAgent,
  contextIdByAgent,
  taskIdByAgent,
  authByAgent,
  trackedTasksByAgent,
  chatError,               \* string | null
  sending,
  fetchingTask,
  exchanges,               \* in-flight handleSendMessage calls, keyed by rpcLogId
  fetches,                 \* in-flight handleFetchTask calls
  nextId,                  \* crypto.randomUUID(): next fresh id
  now,                     \* the clock read by new Date() / Date.now(); time is seen
                           \* to pass between two recorded observations of a task
  ops,                     \* number of user operations performed so far
  lines                    \* number of stream lines and reply bodies received so far

\* The state of one useTaskPolling instance (src/hooks), which the page does
\* not mount: it is a component of its own.
VARIABLES
  hook,                    \* phase of the component, its props, intervalRef, isPollingRef
  timers,                  \* the intervals setInterval created and nobody cleared
  polls,                   \* in-flight fetches of pollTask, oldest first
  calls                    \* the callbacks the latest fetch outcome invoked

pageVars == <<agents, selectedAgentId, messagesByAgent, rpcLogsByAgent, endpointByAgent,
              endpointOverrideByAgent, methodByAgent, contextIdByAgent, taskIdByAgent,
              authByAgent, trackedTasksByAgent, chatError, sending, fetchingTask,
              exchanges, fetches, nextId, now, ops, lines>>
hookVars == <<hook, timers, polls, calls>>

\* The state of the server while it handles one request to an /api/agents route
VARIABLES
  rpcBuild,                \* which of the two versions of the rpc route is served
  request,                 \* the body of the request being handled
  routePc,                 \* where its handler stands
  outbound,                \* the requests sent to the agent so far, in order
  response                 \* the response the route has produced

routeVars == <<rpcBuild, request, routePc, outbound, response>>

\* One call of each exported function of src/lib/a2a/schema.ts and of the
\* content extractor of the page: the argument it is given and what it returned
VARIABLES
  cardInput,               \* normalizeAgentCard: the payload (input)
  cardSourceUrl,           \* normalizeAgentCard: its second argument (sourceUrl)
  normalized,              \* normalizeAgentCard: {card?, errors}
  authConfig,              \* buildAuthHeaders: the config, as it stands after the calls
  builtHeaders,            \* buildAuthHeaders: the maps returned so far, in order
  extractInput,            \* extractResponseText: the payload (data)
  extracted                \* extractResponseText: the outcome of the call

\* One response body of /api/agents/stream as the read loop of
\* handleSendMessage consumes it
VARIABLES
  streamBody,              \* the lines the server wrote, in order
  unread,                  \* the part of the body reader.read() has not returned yet
  applied,                 \* the frames the loop has parsed and applied, in order
  readerDone,              \* reader.read() has returned done
  lineCut                  \* a read has ended inside a line

cardVars == <<cardInput, cardSourceUrl, normalized>>
authVars == <<authConfig, builtHeaders>>
textVars == <<extractInput, extracted>>
readerVars == <<streamBody, unread, applied, readerDone, lineCut>>
libVars == <<cardVars, authVars, textVars, readerVars>>

\* What a step of the page, of the hook, of a route leaves alone
outsideVars == <<hookVars, routeVars, libVars>>
besideHook == <<pageVars, routeVars, libVars>>
besideRoute == <<pageVars, hookVars, libVars>>
besideLib == <<pageVars, hookVars, routeVars>>
vars == <<pageVars, hookVars, routeVars, libVars>>

storeVars == <<messagesByAgent, rpcLogsByAgent, endpointByAgent, endpointOverrideByAgent,
               methodByAgent, contextIdByAgent, taskIdByAgent, authByAgent,
               trackedTasksByAgent>>

\* ------------------------------------------- values of the library calls
\* A JSON scalar as the code tests it: its typeof and its text
Scalar(type, str) == [type |-> type, str |-> str]
Undefined == Scalar("undefined", "")
Str(s) == Scalar("string", s)
Number7 == Scalar("number", "7")
True == Scalar("boolean", "true")
False == Scalar("boolean", "false")
\* value || other
Truthy(value) ==
  CASE value.type = "string" -> value.str # ""
    [] value.type = "number" -> value.str # "0"
    [] value.type = "boolean" -> value.str = "true"
    [] OTHER -> FALSE
Or(value, other) == IF Truthy(value) THEN value ELSE other

\* A JSON object with scalar fields is the map of the fields it has;
\* record[key] is undefined for a key it has not
Field(record, key) == IF key \in DOMAIN record THEN record[key] ELSE Undefined
NoFields == [key \in {} |-> Undefined]
Obj1(k1, v1) == [key \in {k1} |-> v1]
Obj2(k1, v1, k2, v2) == [key \in {k1, k2} |-> IF key = k1 THEN v1 ELSE v2]
\* A member of an array, or the value of a field that may hold an object:
\* asRecord keeps it when it is a non-null object that is no array
Element(isRecord, fields) == [isRecord |-> isRecord, fields |-> fields]
Rec(fields) == Element(TRUE, fields)
NotARecord == Element(FALSE, NoFields)
asRecord(value) == value.isRecord

\* card.endpoints: undefined, an array, or an object whose keys hold arrays
NoEndpoints == [shape |-> "undefined", items |-> <<>>, byKey |-> [key \in {} |-> <<>>]]
EndpointArray(items) == [shape |-> "array", items |-> items, byKey |-> [key \in {} |-> <<>>]]
EndpointsByKey(byKey) == [shape |-> "object", items |-> <<>>, byKey |-> byKey]

\* The payload handed to normalizeAgentCard, with the fields the function reads
CardPayload(isRecord, name, url, id, preferredTransport, endpoints, endpoint, capabilities) ==
  [isRecord |-> isRecord, name |-> name, url |-> url, id |-> id, agentId |-> Undefined,
   preferredTransport |-> preferredTransport, endpoints |-> endpoints,
   endpoint |-> endpoint, capabilities |-> capabilities]

\* A payload that is no object: null, a string, an array
NotACard ==
  CardPayload(FALSE, Undefined, Undefined, Undefined, Undefined, NoEndpoints,
              NotARecord, NotARecord)
\* normalizeAgentCard has not returned
NotCalled == [card |-> <<>>, errors |-> <<>>]
CardIdle == cardInput = NotACard /\ cardSourceUrl = Undefined /\ normalized = NotCalled

\* An AgentAuthConfig, as a request body carries it
AuthConfig(type, token, apiKeyHeader, apiKeyValue, customHeaders) ==
  [type |-> type, token |-> token, apiKeyHeader |-> apiKeyHeader,
   apiKeyValue |-> apiKeyValue, customHeaders |-> customHeaders]
\* body.auth absent
AbsentAuth == AuthConfig("absent", NoVal, NoVal, NoVal, {})
\* The other functions have not been called
AuthIdle == authConfig = AbsentAuth /\ builtHeaders = <<>>
NotExtracted == [returned |-> FALSE, text |-> ""]
TextIdle == extractInput = NullPayload /\ extracted = NotExtracted
\* No response body is being read
ReaderIdle ==
  /\ streamBody = <<>> /\ unread = <<>> /\ applied = <<>>
  /\ readerDone = FALSE /\ lineCut = FALSE
LibIdle == CardIdle /\ AuthIdle /\ TextIdle /\ ReaderIdle

\* The agent lists the mount effect can find in localStorage
StoredAgents == {<<>>, <<Cards["a1"], Cards["a2"]>>, <<Cards["a2"], Cards["a1"]>>}

\* The component that uses the hook has not rendered yet
NoCalls == [cbs |-> {}, taskId |-> NoVal, late |-> FALSE, error |-> NoVal]
\* intervalRef.current = null
NoTimer == [taskId |-> NoVal]
HookInit ==
  /\ hook = [phase |-> "initial", enabled |-> FALSE, taskId |-> NoVal,
             intervalRef |-> NoTimer, isPollingRef |-> FALSE]
  /\ timers = {}
  /\ polls = <<>>
  /\ calls = NoCalls

\* The two versions of the rpc route the repository holds: the one under
\* src/app/api/agents/rpc and the one of part_003
RpcBuilds == {"route.ts", "part_003"}
NoRequest == [route |-> NoVal]
NoResponse == [kind |-> NoVal, status |-> 0, ok |-> FALSE, error |-> NoVal,
               events |-> <<>>, closed |-> FALSE, own |-> FALSE]
\* No request has arrived yet
RouteIdle ==
  /\ request = NoRequest /\ routePc = "idle" /\ outbound = <<>> /\ response = NoResponse

\* State after mount: agents restored from localStorage, the first one selected,
\* every per-agent map empty.
Init ==
  /\ HookInit
  /\ RouteIdle /\ rpcBuild = "route.ts"
  /\ LibIdle
  /\ agents \in StoredAgents
  /\ selectedAgentId = IF agents = <<>> THEN NoVal ELSE agents[1].id
  /\ messagesByAgent = EmptyMap
  /\ rpcLogsByAgent = EmptyMap
  /\ endpointByAgent = EmptyMap
  /\ endpointOverrideByAgent = EmptyMap
  /\ methodByAgent = EmptyMap
  /\ contextIdByAgent = EmptyMap
  /\ taskIdByAgent = EmptyMap
  /\ authByAgent = EmptyMap
  /\ trackedTasksByAgent = EmptyMap
  /\ chatError = NoVal
  /\ sending = FALSE
  /\ fetchingTask = FALSE
  /\ exchanges = EmptyMap
  /\ fetches = {}
  /\ nextId = 1
  /\ now = 0
  /\ ops = 0
  /\ lines = 0

\* agents.find((agent) => agent.id === selectedAgentId) ?? null
IsRegistered(a) == \E i \in 1..Len(agents) : agents[i].id = a
selectedAgent ==
  IF selectedAgentId # NoVal /\ IsRegistered(selectedAgentId)
  THEN agents[CHOOSE i \in 1..Len(agents) : agents[i].id = selectedAgentId]
  ELSE [id |-> NoVal, streaming |-> FALSE]
HasSelectedAgent == selectedAgent.id # NoVal

EndpointOf(card) == "http://agent/rpc"

\* ------------------------------------------------------------ registration
HandleRegister(a) ==
  LET card == Cards[a]
      NotThis(c) == c.id # card.id
  IN
  /\ ops < MaxOps
  /\ ops' = ops + 1
  /\ agents' = <<card>> \o SelectSeq(agents, NotThis)
  /\ selectedAgentId' = card.id
  /\ endpointByAgent' = Put(endpointByAgent, card.id,
                            Get(endpointByAgent, card.id, EndpointOf(card)))
  /\ methodByAgent' = Put(methodByAgent, card.id,
                          Get(methodByAgent, card.id, DEFAULT_METHOD))
  /\ UNCHANGED outsideVars
  /\ UNCHANGED <<messagesByAgent, rpcLogsByAgent, endpointOverrideByAgent,
                 contextIdByAgent, taskIdByAgent, authByAgent, trackedTasksByAgent,
                 chatError, sending, fetchingTask, exchanges, fetches, nextId, now,
                 lines>>

\* onSelect={() => setSelectedAgentId(agent.id)} on a card of the agent list
SelectAgent(a) ==
  /\ IsRegistered(a)
  /\ ops < MaxOps
  /\ ops' = ops + 1
  /\ selectedAgentId # a
  /\ selectedAgentId' = a
  /\ UNCHANGED outsideVars
  /\ UNCHANGED <<agents, storeVars, chatError, sending, fetchingTask, exchanges,
                 fetches, nextId, now, lines>>

\* ------------------------------------------------- per-agent settings (UI)
\* Method <Select>: onValueChange sets methodByAgent[selectedAgent.id]
SetMethod(m) ==
  /\ HasSelectedAgent
  /\ ops < MaxOps
  /\ ops' = ops + 1
  /\ Get(methodByAgent, selectedAgent.id, DEFAULT_METHOD) # m
  /\ methodByAgent' = Put(methodByAgent, selectedAgent.id, m)
  /\ UNCHANGED outsideVars
  /\ UNCHANGED <<agents, selectedAgentId, messagesByAgent, rpcLogsByAgent,
                 endpointByAgent, endpointOverrideByAgent, contextIdByAgent,
                 taskIdByAgent, authByAgent, trackedTasksByAgent, chatError, sending,
                 fetchingTask, exchanges, fetches, nextId, now, lines>>

\* "Or paste full URL" <Input>: onChange sets endpointOverrideByAgent[selectedAgent.id]
SetEndpointOverride(url) ==
  /\ HasSelectedAgent
  /\ ops < MaxOps
  /\ ops' = ops + 1
  /\ Get(endpointOverrideByAgent, selectedAgent.id, NoVal) # url
  /\ endpointOverrideByAgent' = Put(endpointOverrideByAgent, selectedAgent.id, url)
  /\ UNCHANGED outsideVars
  /\ UNCHANGED <<agents, selectedAgentId, messagesByAgent, rpcLogsByAgent,
                 endpointByAgent, methodByAgent, contextIdByAgent, taskIdByAgent,
                 authByAgent, trackedTasksByAgent, chatError, sending, fetchingTask,
                 exchanges, fetches, nextId, now, lines>>

\* Auth Type <Select>: {...prev[id], type: value}
SetAuthType(type) ==
  /\ HasSelectedAgent
  /\ ops < MaxOps
  /\ ops' = ops + 1
  /\ ~Has(authByAgent, selectedAgent.id)
  /\ authByAgent' = Put(authByAgent, selectedAgent.id, [type |-> type, token |-> NoVal])
  /\ UNCHANGED outsideVars
  /\ UNCHANGED <<agents, selectedAgentId, messagesByAgent, rpcLogsByAgent,
                 endpointByAgent, endpointOverrideByAgent, methodByAgent,
                 contextIdByAgent, taskIdByAgent, trackedTasksByAgent, chatError,
                 sending, fetchingTask, exchanges, fetches, nextId, now, lines>>

\* Auth dialog "Clear" button
ClearAuth ==
  /\ HasSelectedAgent
  /\ ops < MaxOps
  /\ ops' = ops + 1
  /\ Has(authByAgent, selectedAgent.id)
  /\ authByAgent' = Del(authByAgent, selectedAgent.id)
  /\ UNCHANGED outsideVars
  /\ UNCHANGED <<agents, selectedAgentId, messagesByAgent, rpcLogsByAgent,
                 endpointByAgent, endpointOverrideByAgent, methodByAgent,
                 contextIdByAgent, taskIdByAgent, trackedTasksByAgent, chatError,
                 sending, fetchingTask, exchanges, fetches, nextId, now, lines>>

\* Tasks panel "Clear History" button
ClearHistory ==
  /\ HasSelectedAgent
  /\ ops < MaxOps
  /\ ops' = ops + 1
  /\ Get(trackedTasksByAgent, selectedAgent.id, <<>>) # <<>>
  /\ trackedTasksByAgent' = Put(trackedTasksByAgent, selectedAgent.id, <<>>)
  /\ UNCHANGED outsideVars
  /\ UNCHANGED <<agents, selectedAgentId, messagesByAgent, rpcLogsByAgent,
                 endpointByAgent, endpointOverrideByAgent, methodByAgent,
                 contextIdByAgent, taskIdByAgent, authByAgent, chatError, sending,
                 fetchingTask, exchanges, fetches, nextId, now, lines>>

\* buildAuthHeaders(auth): the header map, as a set of <<name, value>> pairs
NoAuth == [type |-> "absent", token |-> NoVal]
\* Variant of buildAuthHeaders that, like the SDK, knows bearer tokens only.
buildAuthHeadersBearerOnly(auth) ==
  IF auth.type = "bearer" /\ auth.token # NoVal /\ auth.token # ""
  THEN {<<"Authorization", "Bearer " \o auth.token>>} ELSE {}
buildAuthHeaders(auth) ==
  IF auth.type = "absent" THEN {}
  ELSE IF auth.type = "none" THEN {}
  ELSE IF auth.type = "bearer" /\ auth.token # NoVal /\ auth.token # ""
         THEN {<<"Authorization", "Bearer " \o auth.token>>}
  ELSE IF auth.type = "apiKey" /\ auth.apiKeyHeader \notin {NoVal, ""}
                               /\ auth.apiKeyValue \notin {NoVal, ""}
         THEN {<<auth.apiKeyHeader, auth.apiKeyValue>>}
  ELSE IF auth.type = "custom" THEN auth.customHeaders
  ELSE {}

\* getAuthTokenForSdk(auth): the bearer token, "" for every other auth type
getAuthTokenForSdk(auth) ==
  IF auth.type = "absent" \/ auth.type = "none" THEN ""
  ELSE IF auth.type = "bearer" /\ auth.token # NoVal /\ auth.token # "" THEN auth.token
  ELSE ""

\* --------------------------------------------------- tracked-task upsert
\* Variant of the upsert that stamps createdAt anew on every observation.
UpsertTrackedTaskRestamped(existingTasks, taskId, contextId, state, message) ==
  LET existingTaskIndex ==
        FirstOf({i \in 1..Len(existingTasks) : existingTasks[i].taskId = taskId})
      taskData == [taskId |-> taskId, contextId |-> contextId, state |-> state,
                   lastUpdated |-> now, createdAt |-> now, message |-> message]
  IN IF existingTaskIndex >= 1
     THEN [existingTasks EXCEPT ![existingTaskIndex] = taskData]
     ELSE <<taskData>> \o existingTasks

\* The updater passed to setTrackedTasksByAgent, applied to one agent's list.
UpsertTrackedTask(existingTasks, taskId, contextId, state, message) ==
  LET existingTaskIndex ==
        FirstOf({i \in 1..Len(existingTasks) : existingTasks[i].taskId = taskId})
      taskData == [taskId |-> taskId, contextId |-> contextId, state |-> state,
                   lastUpdated |-> now,
                   createdAt |-> IF existingTaskIndex >= 1
                                 THEN existingTasks[existingTaskIndex].createdAt
                                 ELSE now,
                   message |-> message]
  IN IF existingTaskIndex >= 1
     THEN [existingTasks EXCEPT ![existingTaskIndex] = taskData]
     ELSE <<taskData>> \o existingTasks

\* Task bookkeeping shared by a stream frame and a non-streaming response:
\* the context id, the tracked-task table and the active task id of agent a.
\* Variant that files the context id under the agent selected when the payload
\* arrives instead of the agent the exchange was started for.
ContextAfterUnderSelection(a, p) ==
  IF p.contextId # NoVal /\ p.contextId # ""
  THEN Put(contextIdByAgent, IF selectedAgentId # NoVal THEN selectedAgentId ELSE a,
           p.contextId)
  ELSE contextIdByAgent

\* Variant that keeps the first context id an agent was given.
ContextAfterFirstKept(a, p) ==
  IF p.contextId # NoVal /\ p.contextId # "" /\ ~Has(contextIdByAgent, a)
  THEN Put(contextIdByAgent, a, p.contextId) ELSE contextIdByAgent

\* if (eventContextId) setContextIdByAgent((prev) => ({...prev, [agent]: eventContextId}))
ContextAfter(a, p) ==
  IF p.contextId # NoVal /\ p.contextId # ""
  THEN Put(contextIdByAgent, a, p.contextId) ELSE contextIdByAgent

\* if (eventTaskId && eventState): the payload is an observation of a task
IsObservation(p) == p.id # NoVal /\ p.id # "" /\ p.state # NoVal /\ p.state # ""

TrackedAfter(a, p) ==
  IF IsObservation(p)
  THEN Put(trackedTasksByAgent, a,
           UpsertTrackedTask(Get(trackedTasksByAgent, a, <<>>), p.id, p.contextId,
                             p.state, p.statusMessage))
  ELSE trackedTasksByAgent

\* Variant that records the active task id but never clears it.
TaskIdAfterNeverCleared(a, p) ==
  IF p.id # NoVal /\ p.id # "" /\ p.state = "input-required"
  THEN Put(taskIdByAgent, a, p.id)
  ELSE taskIdByAgent

\* Variant in which a terminal state clears the active task id only when the
\* payload is about the active task.
TaskIdAfterOwnTaskOnly(a, p) ==
  IF p.id # NoVal /\ p.id # "" /\ p.state = "input-required"
  THEN Put(taskIdByAgent, a, p.id)
  ELSE IF p.state \in {"completed", "failed", "canceled"} /\ Get(taskIdByAgent, a, NoVal) = p.id
  THEN Del(taskIdByAgent, a)
  ELSE taskIdByAgent

TaskIdAfter(a, p) ==
  IF p.id # NoVal /\ p.id # "" /\ p.state = "input-required"
  THEN Put(taskIdByAgent, a, p.id)
  ELSE IF p.state \in {"completed", "failed", "canceled"}
  THEN Del(taskIdByAgent, a)
  ELSE taskIdByAgent

\* ------------------------------------------------------- handleSendMessage
\* setMessagesByAgent((prev) => ({...prev, [id]: (prev[id] ?? []).map(...)}))
PatchMessages(a, msgId, patch) ==
  Put(messagesByAgent, a, PatchById(Get(messagesByAgent, a, <<>>), msgId, patch))

AppendMessage(msgs, a, m) == Put(msgs, a, Get(msgs, a, <<>>) \o <<m>>)

ChatMessage(id, role, content, status, error) ==
  [id |-> id, role |-> role, content |-> content,
   status |-> status, error |-> error, taskId |-> NoVal, taskState |-> NoVal]

\* messageText.trim()
trim(text) ==
  IF text = BlankText THEN ""
  ELSE IF \E s \in Trimmed : text = Padded(s) THEN CHOOSE s \in Trimmed : text = Padded(s)
  ELSE text

\* Variant of the method checks that lets every method through.
MethodErrorNever(method) == NoVal

\* The method checks of handleSendMessage: the chat error a method is rejected
\* with, none when the method is sent
MethodError(method) ==
  IF method = "tasks/get" THEN "Use the Tasks panel to fetch task status."
  ELSE IF method \notin SUPPORTED_METHODS THEN "Unsupported JSON-RPC method selected."
  ELSE NoVal

\* The part of handleSendMessage(messageText) after its two silent returns, run
\* on the message map msgs (the current map, or the map a caller has just updated).
SendMessage(messageText, msgs) ==
  LET a == selectedAgent.id
      baseEndpoint == Get(endpointByAgent, a, EndpointOf(selectedAgent))
      override == Get(endpointOverrideByAgent, a, "")
      endpointUrl == IF override # "" THEN override ELSE baseEndpoint
      method == Get(methodByAgent, a, DEFAULT_METHOD)
      forceStreaming == (method = "message/stream")
      existingContextId == Get(contextIdByAgent, a, NoVal)
      existingTaskId == Get(taskIdByAgent, a, NoVal)
      requestParams == [message |-> [role |-> "user", text |-> messageText,
                                     contextId |-> existingContextId],
                        id |-> existingTaskId]
      payload == [method |-> method, params |-> requestParams]
      userMessage == ChatMessage(nextId, "user", messageText, "complete", NoVal)
      rpcLogId == nextId + 1
      assistantMessageId == nextId + 2
      supportsStreaming == selectedAgent.streaming
      useStreaming == forceStreaming \/ supportsStreaming
      stream == useStreaming /\ supportsStreaming
      requestHeaders == [accept |-> IF useStreaming /\ supportsStreaming
                                    THEN "text/event-stream" ELSE "application/json",
                         auth |-> buildAuthHeaders(Get(authByAgent, a, NoAuth))]
      requestLog == [id |-> rpcLogId, endpointUrl |-> endpointUrl,
                     requestPayload |-> payload, requestHeaders |-> requestHeaders,
                     responsePayload |-> Unset, status |-> NoVal,
                     startedAt |-> now, completedAt |-> -1, durationMs |-> -1]
      streamingMessage == ChatMessage(assistantMessageId, "assistant", "", "streaming", NoVal)
      withUser == AppendMessage(msgs, a, userMessage)
  IN
  /\ HasSelectedAgent
  /\ trim(messageText) # ""
  /\ ops < MaxOps
  /\ ops' = ops + 1
  /\ IF MethodError(method) # NoVal
     THEN /\ chatError' = MethodError(method)
          /\ messagesByAgent' = msgs
          /\ UNCHANGED <<rpcLogsByAgent, sending, exchanges, nextId>>
     ELSE /\ chatError' = NoVal
          /\ messagesByAgent' = IF stream THEN AppendMessage(withUser, a, streamingMessage)
                                ELSE withUser
          /\ rpcLogsByAgent' = Put(rpcLogsByAgent, a,
                                   Get(rpcLogsByAgent, a, <<>>) \o <<requestLog>>)
          /\ sending' = TRUE
          /\ exchanges' = Put(exchanges, rpcLogId,
                 [agent |-> a, streaming |-> stream, method |-> method,
                  endpointUrl |-> endpointUrl, payload |-> payload,
                  rpcLogId |-> rpcLogId, assistantMessageId |-> assistantMessageId,
                  replyMessageId |-> nextId + 3,
                  auth |-> Get(authByAgent, a, NoAuth),
                  startedAt |-> now, pc |-> "fetch",
                  accumulatedContent |-> "", lastEventData |-> NullPayload,
                  streamErrorMsg |-> NoVal])
          /\ nextId' = nextId + 4
  /\ UNCHANGED outsideVars
  /\ UNCHANGED <<agents, selectedAgentId, endpointByAgent, endpointOverrideByAgent,
                 methodByAgent, contextIdByAgent, taskIdByAgent, authByAgent,
                 trackedTasksByAgent, fetchingTask, fetches, now, lines>>

\* onSend of the prompt input; its submit button is disabled while sending.
\* With no agent selected or a blank text the handler returns at once.
HandleSendMessage(messageText) ==
  /\ ~sending
  /\ IF ~HasSelectedAgent \/ trim(messageText) = ""
     THEN /\ ops < MaxOps
          /\ ops' = ops + 1
          /\ UNCHANGED <<agents, selectedAgentId, storeVars, chatError, sending,
                         fetchingTask, exchanges, fetches, nextId, now, lines>>
          /\ UNCHANGED outsideVars
     ELSE SendMessage(messageText, messagesByAgent)

\* ------------------------------------------------------ streaming exchange
\* fetch("/api/agents/stream") resolved with response.ok: the body is read next
StreamOpen(k) ==
  /\ exchanges[k].streaming /\ exchanges[k].pc = "fetch"
  /\ exchanges' = [exchanges EXCEPT ![k].pc = "read"]
  /\ UNCHANGED outsideVars
  /\ UNCHANGED <<agents, selectedAgentId, storeVars, chatError, sending, fetchingTask,
                 fetches, nextId, now, lines, ops>>

\* "Extract text content from different event types": the text of a message,
\* the contentParts.join("") of a task, "" when the frame has neither
FrameContent(parsed) ==
  IF parsed.kind = "message" /\ parsed.parts.isArray
    THEN IF extractTextFromParts(parsed.parts.items) # NoVal
         THEN extractTextFromParts(parsed.parts.items) ELSE ""
  ELSE IF parsed.kind = "task" THEN TaskContent(parsed)
  ELSE ""
\* Variant of the accumulation that appends the text of a frame to the text
\* of the frames before it.
AccumulatedAfterAppending(accumulated, parsed) == accumulated \o FrameContent(parsed)
\* accumulatedContent after the frame: its text when it has one
AccumulatedAfter(accumulated, parsed) ==
  IF FrameContent(parsed) # "" THEN FrameContent(parsed) ELSE accumulated

\* One "data: <json>" line of the body, parsed and applied
StreamFrame(k, parsed) ==
  LET x == exchanges[k]
      a == x.agent
      newErr == IF parsed.error = "none" THEN x.streamErrorMsg ELSE parsed.errMessage
      isTask == parsed.kind = "task"
      accumulatedContent == AccumulatedAfter(x.accumulatedContent, parsed)
      taskPatch == IF isTask THEN [taskId |-> parsed.id, taskState |-> parsed.state]
                   ELSE EmptyMap
      contentPatch == IF accumulatedContent # "" THEN [content |-> accumulatedContent]
                      ELSE EmptyMap
  IN
  /\ x.streaming /\ x.pc = "read" /\ lines < MaxFrames
  /\ lines' = lines + 1
  /\ exchanges' = [exchanges EXCEPT ![k].lastEventData = parsed,
                                    ![k].streamErrorMsg = newErr,
                                    ![k].accumulatedContent = accumulatedContent]
  /\ contextIdByAgent' = ContextAfter(a, parsed)
  /\ trackedTasksByAgent' = TrackedAfter(a, parsed)
  /\ taskIdByAgent' = TaskIdAfter(a, parsed)
  /\ messagesByAgent' = IF isTask \/ accumulatedContent # ""
                        THEN PatchMessages(a, x.assistantMessageId,
                                           contentPatch @@ taskPatch)
                        ELSE messagesByAgent
  /\ now' = IF IsObservation(parsed) THEN now + 1 ELSE now
  /\ UNCHANGED outsideVars
  /\ UNCHANGED <<agents, selectedAgentId, rpcLogsByAgent, endpointByAgent,
                 endpointOverrideByAgent, methodByAgent, authByAgent, chatError,
                 sending, fetchingTask, fetches, nextId, ops>>

\* Variant in which a line that cannot be parsed is recorded as a stream error.
StreamSkippedLineAsError(k) ==
  /\ exchanges[k].streaming /\ exchanges[k].pc = "read" /\ lines < MaxFrames
  /\ lines' = lines + 1
  /\ exchanges' = [exchanges EXCEPT ![k].streamErrorMsg = "Unexpected token"]
  /\ UNCHANGED outsideVars
  /\ UNCHANGED <<agents, selectedAgentId, storeVars, chatError, sending, fetchingTask,
                 fetches, nextId, now, ops>>

\* A line that produces no update: "data: [DONE]", or a data line whose
\* JSON.parse throws (the catch swallows it)
StreamSkippedLine(k) ==
  /\ exchanges[k].streaming /\ exchanges[k].pc = "read" /\ lines < MaxFrames
  /\ lines' = lines + 1
  /\ UNCHANGED exchanges
  /\ UNCHANGED outsideVars
  /\ UNCHANGED <<agents, selectedAgentId, storeVars, chatError, sending, fetchingTask,
                 fetches, nextId, now, ops>>

\* completion of a log entry: {...log, responsePayload, completedAt, durationMs}
CompleteLog(log, responsePayload, status, startedAtMs) ==
  [log EXCEPT !.responsePayload = responsePayload, !.status = status,
              !.completedAt = now, !.durationMs = now - startedAtMs]

\* reader.read() returned done: "Finalize the message" and "Update RPC log"
StreamEnd(k) ==
  LET x == exchanges[k]
      a == x.agent
      finalContent == IF x.accumulatedContent # "" THEN x.accumulatedContent
                      ELSE extractResponseText(x.lastEventData)
      isError == \/ x.streamErrorMsg # NoVal
                 \/ x.lastEventData.error # "none"
                 \/ extractErrorSummary(x.lastEventData) # NoVal
      displayContent == IF x.streamErrorMsg # NoVal THEN x.streamErrorMsg ELSE finalContent
      finalized == [content |-> displayContent,
                    status |-> IF isError THEN "error" ELSE "complete",
                    error |-> IF isError THEN displayContent ELSE NoVal]
      existing == Get(rpcLogsByAgent, a, <<>>)
  IN
  /\ x.streaming /\ x.pc = "read"
  /\ chatError' = IF isError /\ displayContent # "" THEN displayContent ELSE chatError
  /\ messagesByAgent' = PatchMessages(a, x.assistantMessageId, finalized)
  /\ rpcLogsByAgent' = Put(rpcLogsByAgent, a,
         [i \in 1..Len(existing) |->
            IF existing[i].id = x.rpcLogId
            THEN CompleteLog(existing[i], x.lastEventData, existing[i].status, x.startedAt)
            ELSE existing[i]])
  /\ sending' = FALSE
  /\ exchanges' = Del(exchanges, k)
  /\ UNCHANGED outsideVars
  /\ UNCHANGED <<agents, selectedAgentId, endpointByAgent, endpointOverrideByAgent,
                 methodByAgent, contextIdByAgent, taskIdByAgent, authByAgent,
                 trackedTasksByAgent, fetchingTask, fetches, nextId, now, lines, ops>>

\* The catch block of the streaming branch: the stream route answered non-OK
\* (thrown as `${status} ${bodyMessage}`), or fetch / reader.read() rejected.
StreamNotOkMsg == "502 Endpoint unreachable"
StreamThrowMsg == "network error"
\* Variant of the catch block that reports the error and leaves the placeholder
\* as it is.
StreamFailSilent(k, errorMessage) ==
  /\ exchanges[k].streaming
  /\ errorMessage = StreamNotOkMsg => exchanges[k].pc = "fetch"
  /\ chatError' = errorMessage
  /\ sending' = FALSE
  /\ exchanges' = Del(exchanges, k)
  /\ UNCHANGED outsideVars
  /\ UNCHANGED <<agents, selectedAgentId, storeVars, fetchingTask, fetches, nextId, now,
                 lines, ops>>

StreamFail(k, errorMessage) ==
  LET x == exchanges[k]
      a == x.agent
      failed == [content |-> "Error: " \o errorMessage, status |-> "error",
                 error |-> errorMessage]
  IN
  /\ x.streaming
  /\ errorMessage = StreamNotOkMsg => x.pc = "fetch"
  /\ chatError' = errorMessage
  /\ messagesByAgent' = PatchMessages(a, x.assistantMessageId, failed)
  /\ sending' = FALSE
  /\ exchanges' = Del(exchanges, k)
  /\ UNCHANGED outsideVars
  /\ UNCHANGED <<agents, selectedAgentId, rpcLogsByAgent, endpointByAgent,
                 endpointOverrideByAgent, methodByAgent, contextIdByAgent,
                 taskIdByAgent, authByAgent, trackedTasksByAgent, fetchingTask,
                 fetches, nextId, now, lines, ops>>

\* -------------------------------------------------- non-streaming exchange
\* existing.map(...) plus the fallback push when no entry has rpcLogId
CompleteOrInsertLog(x, responsePayload, status) ==
  LET existing == Get(rpcLogsByAgent, x.agent, <<>>)
      updated == [i \in 1..Len(existing) |->
                    IF existing[i].id = x.rpcLogId
                    THEN CompleteLog(existing[i], responsePayload, status, x.startedAt)
                    ELSE existing[i]]
      rpcHeaders == [accept |-> "application/json",
                     auth |-> buildAuthHeaders(x.auth)]
      inserted == [id |-> x.rpcLogId, endpointUrl |-> x.endpointUrl,
                   requestPayload |-> x.payload, requestHeaders |-> rpcHeaders,
                   responsePayload |-> responsePayload, status |-> status,
                   startedAt |-> x.startedAt, completedAt |-> now,
                   durationMs |-> now - x.startedAt]
  IN Put(rpcLogsByAgent, x.agent,
         IF \E i \in 1..Len(updated) : updated[i].id = x.rpcLogId
         THEN updated ELSE updated \o <<inserted>>)

\* fetch("/api/agents/rpc") resolved and response.json() parsed: the try block
RpcReply(k, data) ==
  LET x == exchanges[k]
      a == x.agent
      responsePayload == IF data.ok THEN data.data ELSE ReplyAsPayload(data)
      errorSummary == extractErrorSummary(responsePayload)
      assistantMessage ==
        ChatMessage(x.replyMessageId, "assistant", extractResponseText(responsePayload),
                    IF errorSummary # NoVal THEN "error" ELSE "complete", errorSummary)
  IN
  /\ ~x.streaming
  /\ data.ok => lines < MaxFrames
  /\ lines' = IF data.ok THEN lines + 1 ELSE lines
  /\ rpcLogsByAgent' = CompleteOrInsertLog(x, data, IF data.ok THEN "200" ELSE NoVal)
  /\ contextIdByAgent' = ContextAfter(a, responsePayload)
  /\ trackedTasksByAgent' = TrackedAfter(a, responsePayload)
  /\ taskIdByAgent' = TaskIdAfter(a, responsePayload)
  /\ chatError' = IF errorSummary # NoVal THEN errorSummary ELSE chatError
  /\ messagesByAgent' = AppendMessage(messagesByAgent, a, assistantMessage)
  /\ sending' = FALSE
  /\ exchanges' = Del(exchanges, k)
  /\ now' = IF IsObservation(responsePayload) THEN now + 1 ELSE now
  /\ UNCHANGED outsideVars
  /\ UNCHANGED <<agents, selectedAgentId, endpointByAgent, endpointOverrideByAgent,
                 methodByAgent, authByAgent, fetchingTask, fetches, nextId, ops>>

\* fetch or response.json() rejected: the catch block of the non-streaming branch
RpcThrowMsg == "Failed to fetch"
RpcThrow(k) ==
  LET x == exchanges[k]
      a == x.agent
      errorMessage == RpcThrowMsg
      responsePayload ==
        Payload("none", NoVal, NoVal, NoVal, NoVal, NoVal, "string", NoVal, errorMessage)
      assistantMessage ==
        ChatMessage(x.replyMessageId, "assistant", "Request failed: " \o errorMessage, "error",
                    errorMessage)
  IN
  /\ ~x.streaming
  /\ rpcLogsByAgent' = CompleteOrInsertLog(x, responsePayload, NoVal)
  /\ chatError' = errorMessage
  /\ messagesByAgent' = AppendMessage(messagesByAgent, a, assistantMessage)
  /\ sending' = FALSE
  /\ exchanges' = Del(exchanges, k)
  /\ UNCHANGED outsideVars
  /\ UNCHANGED <<agents, selectedAgentId, endpointByAgent, endpointOverrideByAgent,
                 methodByAgent, contextIdByAgent, taskIdByAgent, authByAgent,
                 trackedTasksByAgent, fetchingTask, fetches, nextId, now, lines, ops>>

\* ------------------------------------------------------------- handleRetry
HandleRetry(errorMessageId) ==
  LET a == selectedAgent.id
      messages == Get(messagesByAgent, a, <<>>)
      errorIndex == FirstOf({i \in 1..Len(messages) : messages[i].id = errorMessageId})
      userIdx == {i \in 1..(errorIndex - 1) : messages[i].role = "user"}
      userMessageContent ==
        IF userIdx = {} THEN ""
        ELSE messages[CHOOSE i \in userIdx : \A j \in userIdx : j <= i].content
      NotErr(m) == m.id # errorMessageId
  IN
  /\ HasSelectedAgent
  /\ errorIndex >= 1
  /\ messages[errorIndex].status = "error"    \* the retry button is shown on failed messages
  /\ userMessageContent # ""
  /\ SendMessage(userMessageContent, Put(messagesByAgent, a, SelectSeq(messages, NotErr)))

\* --------------------------------------------------- handleNewConversation
\* Variant that wipes the tracked-task history together with the conversation.
HandleNewConversationWipingTasks ==
  /\ HasSelectedAgent
  /\ ops < MaxOps
  /\ ops' = ops + 1
  /\ Get(messagesByAgent, selectedAgent.id, <<>>) # <<>>
  /\ messagesByAgent' = Put(messagesByAgent, selectedAgent.id, <<>>)
  /\ contextIdByAgent' = Del(contextIdByAgent, selectedAgent.id)
  /\ taskIdByAgent' = Del(taskIdByAgent, selectedAgent.id)
  /\ trackedTasksByAgent' = Del(trackedTasksByAgent, selectedAgent.id)
  /\ chatError' = NoVal
  /\ UNCHANGED outsideVars
  /\ UNCHANGED <<agents, selectedAgentId, rpcLogsByAgent, endpointByAgent,
                 endpointOverrideByAgent, methodByAgent, authByAgent, sending,
                 fetchingTask, exchanges, fetches, nextId, now, lines>>

HandleNewConversation ==
  /\ HasSelectedAgent
  /\ ops < MaxOps
  /\ ops' = ops + 1
  /\ Get(messagesByAgent, selectedAgent.id, <<>>) # <<>>   \* button disabled otherwise
  /\ messagesByAgent' = Put(messagesByAgent, selectedAgent.id, <<>>)
  /\ contextIdByAgent' = Del(contextIdByAgent, selectedAgent.id)
  /\ taskIdByAgent' = Del(taskIdByAgent, selectedAgent.id)
  /\ chatError' = NoVal
  /\ UNCHANGED outsideVars
  /\ UNCHANGED <<agents, selectedAgentId, rpcLogsByAgent, endpointByAgent,
                 endpointOverrideByAgent, methodByAgent, authByAgent,
                 trackedTasksByAgent, sending, fetchingTask, exchanges, fetches,
                 nextId, now, lines>>

\* ------------------------------------------------------- handleDeleteAgent
\* Variant that leaves the active task id of the deleted agent in place.
HandleDeleteAgentKeepingTaskId(agentId) ==
  LET Others(c) == c.id # agentId
  IN
  /\ IsRegistered(agentId)
  /\ ops < MaxOps
  /\ ops' = ops + 1
  /\ agents' = SelectSeq(agents, Others)
  /\ messagesByAgent' = Del(messagesByAgent, agentId)
  /\ rpcLogsByAgent' = Del(rpcLogsByAgent, agentId)
  /\ endpointByAgent' = Del(endpointByAgent, agentId)
  /\ methodByAgent' = Del(methodByAgent, agentId)
  /\ contextIdByAgent' = Del(contextIdByAgent, agentId)
  /\ authByAgent' = Del(authByAgent, agentId)
  /\ trackedTasksByAgent' = Del(trackedTasksByAgent, agentId)
  /\ selectedAgentId' = IF selectedAgentId = agentId THEN NoVal ELSE selectedAgentId
  /\ UNCHANGED outsideVars
  /\ UNCHANGED <<taskIdByAgent, endpointOverrideByAgent, chatError, sending,
                 fetchingTask, exchanges, fetches, nextId, now, lines>>

HandleDeleteAgent(agentId) ==
  LET Others(c) == c.id # agentId
  IN
  /\ IsRegistered(agentId)
  /\ ops < MaxOps
  /\ ops' = ops + 1
  /\ agents' = SelectSeq(agents, Others)
  /\ messagesByAgent' = Del(messagesByAgent, agentId)
  /\ rpcLogsByAgent' = Del(rpcLogsByAgent, agentId)
  /\ endpointByAgent' = Del(endpointByAgent, agentId)
  /\ methodByAgent' = Del(methodByAgent, agentId)
  /\ contextIdByAgent' = Del(contextIdByAgent, agentId)
  /\ taskIdByAgent' = Del(taskIdByAgent, agentId)
  /\ authByAgent' = Del(authByAgent, agentId)
  /\ trackedTasksByAgent' = Del(trackedTasksByAgent, agentId)
  /\ selectedAgentId' = IF selectedAgentId = agentId THEN NoVal ELSE selectedAgentId
  /\ UNCHANGED outsideVars
  /\ UNCHANGED <<endpointOverrideByAgent, chatError, sending, fetchingTask, exchanges,
                 fetches, nextId, now, lines>>

\* --------------------------------------------------------- handleFetchTask
HandleFetchTask(taskId) ==
  /\ HasSelectedAgent
  /\ ~fetchingTask                         \* the fetch buttons are disabled meanwhile
  /\ ops < MaxOps
  /\ fetchingTask' = TRUE
  /\ chatError' = NoVal
  /\ fetches' = fetches \cup {[agent |-> selectedAgent.id, taskId |-> taskId]}
  /\ ops' = ops + 1
  /\ UNCHANGED outsideVars
  /\ UNCHANGED <<agents, selectedAgentId, storeVars, sending, exchanges, nextId, now,
                 lines>>

\* /api/agents/task answered {ok: true, data: task}
FetchReply(f, state) ==
  LET task == TaskFrame(f.taskId, state)
  IN
  /\ f \in fetches
  /\ lines < MaxFrames
  /\ lines' = lines + 1
  /\ trackedTasksByAgent' =
       IF task.state # NoVal /\ task.state # ""
       THEN Put(trackedTasksByAgent, f.agent,
                UpsertTrackedTask(Get(trackedTasksByAgent, f.agent, <<>>), f.taskId,
                                  task.contextId, task.state, task.statusMessage))
       ELSE trackedTasksByAgent
  /\ fetchingTask' = FALSE
  /\ fetches' = fetches \ {f}
  /\ now' = IF task.state # NoVal /\ task.state # "" THEN now + 1 ELSE now
  /\ UNCHANGED outsideVars
  /\ UNCHANGED <<agents, selectedAgentId, messagesByAgent, rpcLogsByAgent,
                 endpointByAgent, endpointOverrideByAgent, methodByAgent,
                 contextIdByAgent, taskIdByAgent, authByAgent, chatError, sending,
                 exchanges, nextId, ops>>

\* /api/agents/task answered {ok: false, error}, or the fetch rejected
FetchFail(f, msg) ==
  /\ f \in fetches
  /\ chatError' = msg
  /\ fetchingTask' = FALSE
  /\ fetches' = fetches \ {f}
  /\ UNCHANGED outsideVars
  /\ UNCHANGED <<agents, selectedAgentId, storeVars, sending, exchanges, nextId, now,
                 lines, ops>>

Next ==
  \/ \E a \in AgentIds : HandleRegister(a)
  \/ \E a \in AgentIds : SelectAgent(a)
  \/ \E m \in SUPPORTED_METHODS : SetMethod(m)
  \/ SetEndpointOverride(OverrideUrl)
  \/ SetAuthType("bearer")
  \/ ClearAuth
  \/ ClearHistory
  \/ \E t \in Texts \cup {BlankText} : HandleSendMessage(t)
  \/ \E k \in DOMAIN exchanges : StreamOpen(k)
  \/ \E k \in DOMAIN exchanges, p \in Frames : StreamFrame(k, p)
  \/ \E k \in DOMAIN exchanges : StreamSkippedLine(k)
  \/ \E k \in DOMAIN exchanges : StreamEnd(k)
  \/ \E k \in DOMAIN exchanges, e \in {StreamNotOkMsg, StreamThrowMsg} : StreamFail(k, e)
  \/ \E k \in DOMAIN exchanges, d \in RpcReplies : RpcReply(k, d)
  \/ \E k \in DOMAIN exchanges : RpcThrow(k)
  \/ \E id \in 1..(nextId - 1) : HandleRetry(id)
  \/ HandleNewConversation
  \/ \E a \in AgentIds : HandleDeleteAgent(a)
  \/ \E t \in TaskIds : HandleFetchTask(t)
  \/ \E f \in fetches, st \in States \cup {NoVal} : FetchReply(f, st)
  \/ \E f \in fetches : FetchFail(f, "Failed to fetch task")

Spec == Init /\ [][Next]_vars

\* ---------------------------------------------------------- useTaskPolling
TERMINAL_STATES == {"completed", "failed", "canceled", "rejected"}
\* task.status?.state as /api/agents/task may report it (NoVal: no status)
PollStates == {"working", NoVal} \cup TERMINAL_STATES
PollErrors == {"Failed to fetch task", "Polling failed"}

\* Variant of the guard of pollTask that ignores the in-progress flag.
IssuesWhilePolling(taskId) == taskId # NoVal

\* if (!taskId || !cardUrl || isPollingRef.current) return: whether a call of
\* the pollTask closure over taskId goes on to fetch
Issues(taskId) == taskId # NoVal /\ ~hook.isPollingRef

\* The fetch a call of pollTask adds to the fetches in flight
PollsAfter(inFlight, taskId) ==
  IF Issues(taskId) THEN Append(inFlight, [taskId |-> taskId, abandoned |-> FALSE])
  ELSE inFlight

\* The cleanup of the effect, and the branch for a disabled or untargeted hook:
\* if (intervalRef.current) { clearInterval(intervalRef.current); ... = null }
ClearTimer == timers \ {hook.intervalRef}

\* The fetches in flight, marked as belonging to a polling that was torn down
Abandoned(inFlight) == [i \in 1..Len(inFlight) |-> [inFlight[i] EXCEPT !.abandoned = TRUE]]

\* The component renders with props (enabled, taskId): its first render, or a
\* later one that changes a dependency of the effect.  The previous effect is
\* cleaned up and the effect runs: an initial pollTask() and a new interval
\* when enabled with a task id, the interval cleared otherwise.
Render(enabled, taskId) ==
  LET active == enabled /\ taskId # NoVal
      tornDown == /\ hook.phase = "mounted"
                  /\ (taskId # hook.taskId \/ (hook.enabled /\ ~enabled))
      inFlight == IF tornDown THEN Abandoned(polls) ELSE polls
      timer == [taskId |-> taskId]
  IN
  /\ hook.phase # "unmounted"
  /\ hook.phase = "mounted" => <<enabled, taskId>> # <<hook.enabled, hook.taskId>>
  /\ hook' = [phase |-> "mounted", enabled |-> enabled, taskId |-> taskId,
              intervalRef |-> IF active THEN timer ELSE NoTimer,
              isPollingRef |-> hook.isPollingRef \/ (active /\ Issues(taskId))]
  /\ polls' = IF active THEN PollsAfter(inFlight, taskId) ELSE inFlight
  /\ timers' = IF active THEN ClearTimer \cup {timer} ELSE ClearTimer
  /\ UNCHANGED <<calls, besideHook>>

\* The component unmounts: the cleanup of the effect runs
Unmount ==
  /\ hook.phase = "mounted"
  /\ hook' = [hook EXCEPT !.phase = "unmounted", !.intervalRef = NoTimer]
  /\ timers' = ClearTimer
  /\ polls' = Abandoned(polls)
  /\ UNCHANGED <<calls, besideHook>>

\* An interval fires: the pollTask closure it was created with runs
Tick(timer) ==
  /\ timer \in timers
  /\ hook' = [hook EXCEPT !.isPollingRef = hook.isPollingRef \/ Issues(timer.taskId)]
  /\ polls' = PollsAfter(polls, timer.taskId)
  /\ UNCHANGED <<timers, calls, besideHook>>

\* The component calls the pollTask the hook returned to it
ManualPoll ==
  /\ hook.phase = "mounted"
  /\ hook' = [hook EXCEPT !.isPollingRef = hook.isPollingRef \/ Issues(hook.taskId)]
  /\ polls' = PollsAfter(polls, hook.taskId)
  /\ UNCHANGED <<timers, calls, besideHook>>

\* The fetches in flight without the i-th
WithoutPoll(i) == [j \in 1..(Len(polls) - 1) |-> IF j < i THEN polls[j] ELSE polls[j + 1]]

\* Variant in which no task state stops the polling.
StopsPollingNever(taskState) == FALSE

\* taskState && TERMINAL_STATES.includes(taskState)
StopsPolling(taskState) == taskState # NoVal /\ taskState \in TERMINAL_STATES

\* /api/agents/task answered {ok: true, data: task} to the i-th fetch in flight
PollReply(i, taskState) ==
  LET f == polls[i]
      stop == StopsPolling(taskState)
  IN
  /\ i \in 1..Len(polls)
  /\ calls' = [cbs |-> IF stop THEN {"onUpdate", "onComplete"} ELSE {"onUpdate"},
               taskId |-> f.taskId, late |-> f.abandoned, error |-> NoVal]
  /\ timers' = IF stop THEN ClearTimer ELSE timers
  /\ hook' = [hook EXCEPT !.intervalRef = IF stop THEN NoTimer ELSE @,
                          !.isPollingRef = FALSE]
  /\ polls' = WithoutPoll(i)
  /\ UNCHANGED besideHook

\* The route answered {ok: false, error}, or fetch / response.json() rejected
PollFail(i, error) ==
  LET f == polls[i]
  IN
  /\ i \in 1..Len(polls)
  /\ calls' = [cbs |-> {"onError"}, taskId |-> f.taskId, late |-> f.abandoned,
               error |-> error]
  /\ hook' = [hook EXCEPT !.isPollingRef = FALSE]
  /\ polls' = WithoutPoll(i)
  /\ UNCHANGED <<timers, besideHook>>

NextPoll ==
  \/ \E enabled \in BOOLEAN, taskId \in TaskIds \cup {NoVal} : Render(enabled, taskId)
  \/ Unmount
  \/ \E timer \in timers : Tick(timer)
  \/ ManualPoll
  \/ \E i \in 1..Len(polls), taskState \in PollStates : PollReply(i, taskState)
  \/ \E i \in 1..Len(polls), error \in PollErrors : PollFail(i, error)

\* The page with no agent registered, next to which the hook is exercised
PageIdle ==
  /\ agents = <<>> /\ selectedAgentId = NoVal
  /\ messagesByAgent = EmptyMap /\ rpcLogsByAgent = EmptyMap
  /\ endpointByAgent = EmptyMap /\ endpointOverrideByAgent = EmptyMap
  /\ methodByAgent = EmptyMap /\ contextIdByAgent = EmptyMap
  /\ taskIdByAgent = EmptyMap /\ authByAgent = EmptyMap
  /\ trackedTasksByAgent = EmptyMap /\ chatError = NoVal
  /\ sending = FALSE /\ fetchingTask = FALSE /\ exchanges = EmptyMap /\ fetches = {}
  /\ nextId = 1 /\ now = 0 /\ ops = 0 /\ lines = 0

InitPoll == HookInit /\ PageIdle /\ RouteIdle /\ LibIdle /\ rpcBuild = "route.ts"
SpecPoll == InitPoll /\ [][NextPoll]_vars

\* The interval keeps firing while it is set, and every fetch gets an outcome
SpecPollFair ==
  /\ InitPoll /\ [][NextPoll]_vars
  /\ WF_vars(\E timer \in timers : Tick(timer))
  /\ WF_vars(\E i \in 1..Len(polls), taskState \in PollStates : PollReply(i, taskState))

\* ------------------------------------------------------ /api/agents routes
MaxEvents == 2

CardUrl == "http://agent/.well-known/agent-card.json"
EndpointUrl == "http://agent/rpc"

\* The auth configurations the dialog can store for an agent
AuthConfigs ==
  {AbsentAuth,
   AuthConfig("none", NoVal, NoVal, NoVal, {}),
   AuthConfig("bearer", "tok", NoVal, NoVal, {}),
   AuthConfig("bearer", "", NoVal, NoVal, {}),
   AuthConfig("apiKey", NoVal, "x-api-key", "key", {}),
   AuthConfig("apiKey", NoVal, "x-api-key", "", {}),
   AuthConfig("custom", NoVal, NoVal, NoVal, {<<"client_id", "id">>}),
   AuthConfig("custom", NoVal, NoVal, NoVal, {})}

\* A message request as handleSendMessage posts it to the rpc or stream route:
\* the body carries the auth configured for the agent
MessageRequests ==
  {[route |-> route, client |-> "page", cardUrl |-> cardUrl, endpointUrl |-> endpointUrl,
    method |-> method, validParams |-> validParams, taskId |-> NoVal,
    agentAuth |-> auth, auth |-> auth] :
     route \in {"rpc", "stream"}, cardUrl \in {"", CardUrl},
     endpointUrl \in {"", EndpointUrl}, method \in SUPPORTED_METHODS,
     validParams \in BOOLEAN, auth \in AuthConfigs}
\* A task request as handleFetchTask (with the agent's auth) and pollTask
\* (without any auth member) post it to the task route
TaskRequests ==
  {[route |-> "task", client |-> client, cardUrl |-> cardUrl, endpointUrl |-> "",
    method |-> "tasks/get", validParams |-> TRUE, taskId |-> taskId,
    agentAuth |-> auth, auth |-> IF client = "hook" THEN AbsentAuth ELSE auth] :
     client \in {"page", "hook"}, cardUrl \in {"", CardUrl}, taskId \in {"", "t1"},
     auth \in AuthConfigs}

\* const hasAuth = auth && auth.type !== "none"
hasAuth(auth) == auth.type # "absent" /\ auth.type # "none"

GuidanceError == "Auth is configured but no headers were built."
JsonResponse(status, ok, error) ==
  [kind |-> "json", status |-> status, ok |-> ok, error |-> error,
   events |-> <<>>, closed |-> TRUE, own |-> FALSE]
\* new Response(stream, {"Content-Type": "text/event-stream"}): own tells a
\* stream the route builds from the upstream body handed through
EventStream(events, closed, own) ==
  [kind |-> "sse", status |-> 200, ok |-> TRUE, error |-> NoVal,
   events |-> events, closed |-> closed, own |-> own]
DoneEvent == "data: [DONE]"

\* fetch(targetUrl, {headers: {..., ...authHeaders}}) of the direct calls
DirectCall(url, authHeaders) == [via |-> "fetch", url |-> url, headers |-> authHeaders]
\* A request the SDK client makes: all it was given is the bearer token
SdkCall(url, authToken) ==
  [via |-> "sdk", url |-> url,
   headers |-> IF authToken # "" THEN {<<"Authorization", "Bearer " \o authToken>>}
               ELSE {}]

\* if (hasAuth && Object.keys(authHeaders).length === 0): the stream route and
\* the part_003 version of the rpc route have the check
RejectsAuth(build, auth) ==
  build # "route.ts" /\ hasAuth(auth) /\ buildAuthHeaders(auth) = {}

\* (!cardUrl && endpointUrl) || (endpointUrl && hasAuth); the rpc route under
\* src/app has the first disjunct only
UseDirect(build, r) ==
  \/ r.cardUrl = "" /\ r.endpointUrl # ""
  \/ build # "route.ts" /\ r.endpointUrl # "" /\ hasAuth(r.auth)

\* POST of the stream route up to its first await on the agent
StreamPost(r) ==
  /\ routePc = "idle" /\ r.route = "stream"
  /\ request' = r
  /\ IF RejectsAuth("stream", r.auth)
     THEN /\ response' = JsonResponse(400, FALSE, GuidanceError)
          /\ routePc' = "done" /\ UNCHANGED outbound
     ELSE IF r.cardUrl = "" /\ r.endpointUrl = ""
     THEN /\ response' = JsonResponse(400, FALSE, "Missing cardUrl or endpointUrl.")
          /\ routePc' = "done" /\ UNCHANGED outbound
     ELSE IF ~r.validParams
     THEN /\ response' = JsonResponse(400, FALSE, "Missing params.message.")
          /\ routePc' = "done" /\ UNCHANGED outbound
     ELSE IF UseDirect("stream", r)
     THEN /\ outbound' = <<DirectCall(r.endpointUrl, buildAuthHeaders(r.auth))>>
          /\ routePc' = "direct" /\ UNCHANGED response
     ELSE /\ outbound' = <<SdkCall(r.cardUrl, getAuthTokenForSdk(r.auth))>>
          /\ routePc' = "card" /\ UNCHANGED response
  /\ UNCHANGED <<rpcBuild, besideRoute>>

\* What the agent can answer to a direct call
UpstreamReplies == {"sse", "json+result", "json", "text", "notok", "reject"}

\* Variant that closes the synthesized stream without the terminal marker.
SynthesizedStreamUnterminated(reply) ==
  EventStream(<<IF reply = "json+result" THEN "data: result" ELSE "data: body">>,
              TRUE, TRUE)

\* const result = data.result ?? data; one data event, [DONE], close()
SynthesizedStream(reply) ==
  EventStream(<<IF reply = "json+result" THEN "data: result" ELSE "data: body",
                DoneEvent>>, TRUE, TRUE)

\* directStreamingCall settled, in any of the three places of the stream route
\* that call it: the direct branch, the branch for a card without streaming,
\* the fallback when the card URL answers 404
StreamUpstream(reply) ==
  /\ routePc \in {"direct", "noStreaming", "fallback"}
  /\ response' =
       CASE reply = "sse" -> EventStream(<<>>, FALSE, FALSE)
         [] reply \in {"json+result", "json"} -> SynthesizedStream(reply)
         [] reply = "text" ->
              IF routePc = "direct"
              THEN JsonResponse(502, FALSE, "Upstream response: Unexpected token")
              ELSE IF routePc = "fallback"
              THEN JsonResponse(502, FALSE, "Upstream response was not valid JSON.")
              ELSE JsonResponse(500, FALSE, "Unexpected token")
         [] reply = "notok" ->
              JsonResponse(IF routePc = "fallback" THEN 500 ELSE 502, FALSE,
                           "401 Unauthorized.")
         [] OTHER -> JsonResponse(500, FALSE, "fetch failed")
  /\ routePc' = "done"
  /\ UNCHANGED <<rpcBuild, request, outbound, besideRoute>>

\* What factory.createFromUrl / client.getAgentCard can come back with
CardOutcomes == {"streaming", "noStreaming", "card404", "fail"}

\* createFromUrl and getAgentCard settled in the stream route
StreamCard(outcome) ==
  LET authHeaders == buildAuthHeaders(request.auth)
  IN
  /\ routePc = "card"
  /\ CASE outcome = "streaming" ->
            /\ outbound' = Append(outbound, SdkCall(EndpointUrl,
                                                    getAuthTokenForSdk(request.auth)))
            /\ response' = EventStream(<<>>, FALSE, TRUE)
            /\ routePc' = "sdkStream"
       [] outcome = "noStreaming" /\ request.endpointUrl # "" ->
            /\ outbound' = Append(outbound, DirectCall(request.endpointUrl, authHeaders))
            /\ routePc' = "noStreaming" /\ UNCHANGED response
       [] outcome = "noStreaming" /\ request.endpointUrl = "" ->
            /\ response' = JsonResponse(400, FALSE, "Agent does not support streaming.")
            /\ routePc' = "done" /\ UNCHANGED outbound
       [] outcome = "card404" ->
            /\ outbound' = Append(outbound, DirectCall(request.cardUrl, authHeaders))
            /\ routePc' = "fallback" /\ UNCHANGED response
       [] OTHER ->
            /\ response' = JsonResponse(500, FALSE, "Failed to fetch Agent Card")
            /\ routePc' = "done" /\ UNCHANGED outbound
  /\ UNCHANGED <<rpcBuild, request, besideRoute>>

\* for await (const event of client.sendMessageStream(params)): one event
SdkEvent ==
  /\ routePc = "sdkStream" /\ Len(response.events) < MaxEvents
  /\ response' = [response EXCEPT !.events = Append(@, "data: event")]
  /\ UNCHANGED <<rpcBuild, request, routePc, outbound, besideRoute>>

\* The iteration ended: "Send done event", close()
SdkEnd ==
  /\ routePc = "sdkStream"
  /\ response' = [response EXCEPT !.events = Append(@, DoneEvent), !.closed = TRUE]
  /\ routePc' = "done"
  /\ UNCHANGED <<rpcBuild, request, outbound, besideRoute>>

\* The iteration threw: data: {"error": message}, close()
SdkThrow ==
  /\ routePc = "sdkStream"
  /\ response' = [response EXCEPT !.events = Append(@, "data: {error}"), !.closed = TRUE]
  /\ routePc' = "done"
  /\ UNCHANGED <<rpcBuild, request, outbound, besideRoute>>

\* POST of the rpc route up to its first await on the agent
RpcPost(r) ==
  /\ routePc = "idle" /\ r.route = "rpc"
  /\ request' = r
  /\ IF RejectsAuth(rpcBuild, r.auth)
     THEN /\ response' = JsonResponse(400, FALSE, GuidanceError)
          /\ routePc' = "done" /\ UNCHANGED outbound
     ELSE IF r.cardUrl = "" /\ r.endpointUrl = ""
     THEN /\ response' = JsonResponse(400, FALSE, "Missing cardUrl or endpointUrl.")
          /\ routePc' = "done" /\ UNCHANGED outbound
     ELSE IF r.method \notin {"message/send", "message/stream"}
     THEN /\ response' = JsonResponse(400, FALSE, "Method not supported.")
          /\ routePc' = "done" /\ UNCHANGED outbound
     ELSE IF ~r.validParams
     THEN /\ response' = JsonResponse(400, FALSE, "Missing params.message.")
          /\ routePc' = "done" /\ UNCHANGED outbound
     ELSE IF UseDirect(rpcBuild, r)
     THEN /\ outbound' = <<DirectCall(r.endpointUrl, buildAuthHeaders(r.auth))>>
          /\ routePc' = "rpcDirect" /\ UNCHANGED response
     ELSE /\ outbound' = <<SdkCall(r.cardUrl, getAuthTokenForSdk(r.auth))>>
          /\ routePc' = "rpcCard" /\ UNCHANGED response
  /\ UNCHANGED <<rpcBuild, besideRoute>>

\* directJsonRpcCall settled: the result, or an error thrown for a non-OK
\* reply, a JSON-RPC error member or a rejected fetch
RpcUpstream(ok) ==
  /\ routePc \in {"rpcDirect", "rpcFallback"}
  /\ response' = IF ok THEN JsonResponse(200, TRUE, NoVal)
                 ELSE JsonResponse(500, FALSE, "HTTP 500: Internal Server Error")
  /\ routePc' = "done"
  /\ UNCHANGED <<rpcBuild, request, outbound, besideRoute>>

\* createFromUrl and getAgentCard settled in the rpc route
RpcCard(outcome) ==
  /\ routePc = "rpcCard"
  /\ CASE outcome \in {"streaming", "noStreaming"} ->
            /\ outbound' = Append(outbound, SdkCall(EndpointUrl,
                                                    getAuthTokenForSdk(request.auth)))
            /\ routePc' = "rpcSdk" /\ UNCHANGED response
       [] outcome = "card404" ->
            /\ outbound' = Append(outbound, DirectCall(request.cardUrl,
                                                       buildAuthHeaders(request.auth)))
            /\ routePc' = "rpcFallback" /\ UNCHANGED response
       [] OTHER ->
            /\ response' = JsonResponse(500, FALSE, "Failed to fetch Agent Card")
            /\ routePc' = "done" /\ UNCHANGED outbound
  /\ UNCHANGED <<rpcBuild, request, besideRoute>>

\* client.sendMessage / sendMessageStream, client.getTask settled
SdkSettled(ok) ==
  /\ routePc \in {"rpcSdk", "taskSdk"}
  /\ response' = IF ok THEN JsonResponse(200, TRUE, NoVal)
                 ELSE JsonResponse(500, FALSE, "Request failed.")
  /\ routePc' = "done"
  /\ UNCHANGED <<rpcBuild, request, outbound, besideRoute>>

\* POST of the task route up to createFromUrl
TaskPost(r) ==
  /\ routePc = "idle" /\ r.route = "task"
  /\ request' = r
  /\ IF r.cardUrl = ""
     THEN /\ response' = JsonResponse(400, FALSE, "Missing cardUrl.")
          /\ routePc' = "done" /\ UNCHANGED outbound
     ELSE IF r.taskId = ""
     THEN /\ response' = JsonResponse(400, FALSE, "Missing taskId.")
          /\ routePc' = "done" /\ UNCHANGED outbound
     ELSE /\ outbound' = <<SdkCall(r.cardUrl, getAuthTokenForSdk(r.auth))>>
          /\ routePc' = "taskCard" /\ UNCHANGED response
  /\ UNCHANGED <<rpcBuild, besideRoute>>

\* createFromUrl settled in the task route: client.getTask follows, or the catch
TaskCard(ok) ==
  /\ routePc = "taskCard"
  /\ IF ok
     THEN /\ outbound' = Append(outbound, SdkCall(EndpointUrl,
                                                  getAuthTokenForSdk(request.auth)))
          /\ routePc' = "taskSdk" /\ UNCHANGED response
     ELSE /\ response' = JsonResponse(500, FALSE, "Failed to fetch Agent Card")
          /\ routePc' = "done" /\ UNCHANGED outbound
  /\ UNCHANGED <<rpcBuild, request, besideRoute>>

NextRoute ==
  \/ \E r \in MessageRequests : StreamPost(r)
  \/ \E reply \in UpstreamReplies : StreamUpstream(reply)
  \/ \E outcome \in CardOutcomes : StreamCard(outcome)
  \/ SdkEvent
  \/ SdkEnd
  \/ SdkThrow
  \/ \E r \in MessageRequests : RpcPost(r)
  \/ \E ok \in BOOLEAN : RpcUpstream(ok)
  \/ \E outcome \in CardOutcomes : RpcCard(outcome)
  \/ \E ok \in BOOLEAN : SdkSettled(ok)
  \/ \E r \in TaskRequests : TaskPost(r)
  \/ \E ok \in BOOLEAN : TaskCard(ok)

InitRoute == HookInit /\ PageIdle /\ RouteIdle /\ LibIdle /\ rpcBuild \in RpcBuilds
SpecRoute == InitRoute /\ [][NextRoute]_vars

\* A stream the route has opened on the SDK gets its end
SpecRouteFair == SpecRoute /\ WF_vars(SdkEnd \/ SdkThrow)

\* ------------------------------------------------- src/lib/a2a/schema.ts
asString(value) == IF value.type # "string" THEN "" ELSE trim(value.str)
\* String.prototype.toLowerCase, on the transports cards name
toLowerCase(s) == IF s = "GRPC" THEN "grpc" ELSE s

DEFAULT_PROTOCOL == "jsonrpc"

IsRecordElement(element) == asRecord(element)
\* entries.forEach: the records among them, each with the protocol hint
CandidatesOf(entries, protocolHint) ==
  LET records == SelectSeq(entries, IsRecordElement)
  IN [i \in 1..Len(records) |-> [entry |-> records[i].fields, protocolHint |-> protocolHint]]
CandidatesUnder(byKey, key) ==
  IF key \in DOMAIN byKey THEN CandidatesOf(byKey[key], key) ELSE <<>>

\* Variant of the naming of the root url's entry that ignores the card's name.
rootNameFixed(cardName) == "Agent URL"
\* name: asString(card.name) || "Agent URL"
rootName(cardName) == IF cardName # "" THEN cardName ELSE "Agent URL"

collectEndpointCandidates(card) ==
  LET preferredTransport == toLowerCase(asString(card.preferredTransport))
      protocolHint == IF preferredTransport # "" THEN preferredTransport ELSE DEFAULT_PROTOCOL
      endpoints == card.endpoints
      listed == IF endpoints.shape = "array" THEN CandidatesOf(endpoints.items, protocolHint)
                ELSE IF endpoints.shape = "object"
                  THEN CandidatesUnder(endpoints.byKey, "jsonrpc")
                       \o CandidatesUnder(endpoints.byKey, "rpc")
                       \o CandidatesUnder(endpoints.byKey, "http")
                ELSE <<>>
      single == IF asRecord(card.endpoint)
                THEN <<[entry |-> card.endpoint.fields, protocolHint |-> protocolHint]>>
                ELSE <<>>
      rootUrl == asString(card.url)
      cardName == asString(card.name)
      root == IF rootUrl # ""
              THEN <<[entry |-> [key \in {"url", "name", "protocol"} |->
                                   CASE key = "url" -> Str(rootUrl)
                                     [] key = "name" -> Str(rootName(cardName))
                                     [] OTHER -> Str(protocolHint)],
                      protocolHint |-> protocolHint]>>
              ELSE <<>>
  IN listed \o single \o root

\* The urls new URL() parses: the absolute ones
AbsoluteUrls == {"https://x/a", "https://y/b", "https://z/c", "https://x/card"}
validateUrl(value) == value \in AbsoluteUrls

\* Variant of the url lookup that reads entry.href only.
urlOfHref(entry) == asString(Field(entry, "href"))
\* const url = asString(entry.url || entry.href || entry.endpoint)
urlOf(entry) ==
  asString(Or(Or(Field(entry, "url"), Field(entry, "href")), Field(entry, "endpoint")))
\* The errors the forEach over the candidates pushes, in order
endpointErrors(candidates) ==
  LET pushed[i \in 0..Len(candidates)] ==
        IF i = 0 THEN <<>>
        ELSE pushed[i - 1] \o
             (IF urlOf(candidates[i].entry) = ""
                THEN <<"Endpoint " \o ToString(i) \o " is missing a url.">>
              ELSE IF ~validateUrl(urlOf(candidates[i].entry))
                THEN <<"Endpoint " \o ToString(i) \o " has an invalid url.">>
              ELSE <<>>)
  IN pushed[Len(candidates)]
\* The endpoints the forEach over the candidates pushes, in order
endpointsOf(candidates) ==
  LET pushed[i \in 0..Len(candidates)] ==
        IF i = 0 THEN <<>>
        ELSE LET entry == candidates[i].entry
                 protocolHint == candidates[i].protocolHint
                 url == urlOf(entry)
                 protocol == asString(Or(Or(Field(entry, "protocol"), Field(entry, "type")),
                                         Field(entry, "transport")))
                 nameValue == asString(Or(Field(entry, "name"), Field(entry, "id")))
                 stem == IF protocol # "" THEN protocol ELSE protocolHint
             IN pushed[i - 1] \o
                (IF url = "" \/ ~validateUrl(url) THEN <<>>
                 ELSE <<[id |-> stem \o "-" \o ToString(i),
                         name |-> IF nameValue # "" THEN nameValue
                                  ELSE "Endpoint " \o ToString(i),
                         url |-> url,
                         protocol |-> IF stem # "" THEN stem ELSE DEFAULT_PROTOCOL]>>)
  IN pushed[Len(candidates)]

\* {card?, errors}: the card is a sequence of at most one member
Failure(errors) == [card |-> <<>>, errors |-> errors]
Success(card) == [card |-> <<card>>, errors |-> <<>>]

\* Variant of the name check that returns as soon as the name is found missing.
nameErrorsFailFast(name, others) ==
  IF name = "" THEN <<"Missing required field: name.">> ELSE others
\* The errors of a card: the one of the name, then the others
nameErrors(name, others) ==
  (IF name = "" THEN <<"Missing required field: name.">> ELSE <<>>) \o others

\* Variant of the endpoint check that lets a card without endpoints through.
noEndpointsErrorNever(endpoints) == <<>>
noEndpointsError(endpoints) ==
  IF Len(endpoints) = 0 THEN <<"No endpoints found in card.">> ELSE <<>>

normalizeAgentCard(input, sourceUrl) ==
  IF ~asRecord(input) THEN Failure(<<"Agent card payload must be an object.">>)
  ELSE
    LET card == input
        name == asString(card.name)
        endpointCandidates == collectEndpointCandidates(card)
        endpoints == endpointsOf(endpointCandidates)
        errors == nameErrors(name, endpointErrors(endpointCandidates)
                                   \o noEndpointsError(endpoints))
        idValue == asString(Or(Or(Or(card.id, card.agentId), sourceUrl), Str(name)))
        capabilitiesRecord == card.capabilities
    IN IF Len(errors) # 0 THEN Failure(errors)
       ELSE Success([id |-> IF idValue # "" THEN idValue ELSE name,
                     name |-> name,
                     url |-> sourceUrl,
                     endpoints |-> endpoints,
                     capabilities |->
                       [streaming |-> asRecord(capabilitiesRecord)
                                      /\ Field(capabilitiesRecord.fields, "streaming") = True]])

\* The field values the payloads below are made of
CardNames == {Undefined, Number7, Str(BlankText), Str("Echo")}
RootUrls == {Undefined, Str("https://x/a"), Str("x/a"), Str(Padded("https://x/a"))}
CardIdValues == {Undefined, Number7, Str("agent-1")}
EndpointEntries ==
  <<Rec(Obj1("url", Str("https://y/b"))),
    Rec(Obj2("href", Str("https://y/b"), "name", Str("Main"))),
    Rec(Obj1("url", Str("y/b"))),
    Rec(Obj1("name", Str("Main"))),
    Rec(Obj2("url", Number7, "href", Str("https://y/b"))),
    NotARecord>>
EndpointsValues ==
  {NoEndpoints, EndpointArray(<<>>)}
  \cup {EndpointArray(<<EndpointEntries[i]>>) : i \in 1..Len(EndpointEntries)}
  \cup {EndpointArray(<<EndpointEntries[3], EndpointEntries[1]>>),
        EndpointsByKey([key \in {"rpc"} |-> <<EndpointEntries[1]>>]),
        EndpointsByKey([key \in {"grpc"} |-> <<EndpointEntries[1]>>])}
EndpointValues ==
  {NotARecord, Rec(Obj1("url", Str("https://z/c"))), Rec(Obj1("url", Str("z/c")))}
CapabilitiesValues ==
  {NotARecord, Rec(Obj1("streaming", False)), Rec(Obj1("streaming", True)),
   Rec(Obj1("streaming", Str("true")))}
CardPayloads ==
  {NotACard}
  \cup {CardPayload(TRUE, name, url, Undefined, Undefined, endpoints, endpoint, capabilities) :
          name \in CardNames, url \in RootUrls, endpoints \in EndpointsValues,
          endpoint \in EndpointValues, capabilities \in CapabilitiesValues}
  \cup {CardPayload(TRUE, name, Str("https://x/a"), id, preferredTransport, NoEndpoints,
                    NotARecord, NotARecord) :
          name \in CardNames, id \in CardIdValues,
          preferredTransport \in {Undefined, Str("GRPC")}}
SourceUrls == {Undefined, Str("https://x/card")}

\* The call of normalizeAgentCard(input, sourceUrl) returns
NormalizeAgentCard ==
  /\ normalized = NotCalled
  /\ normalized' = normalizeAgentCard(cardInput, cardSourceUrl)
  /\ UNCHANGED <<cardInput, cardSourceUrl, authVars, textVars, readerVars, besideLib>>

NextCard == NormalizeAgentCard
InitCard ==
  /\ HookInit /\ PageIdle /\ RouteIdle /\ rpcBuild = "route.ts" /\ AuthIdle /\ TextIdle
  /\ ReaderIdle
  /\ cardInput \in CardPayloads /\ cardSourceUrl \in SourceUrls /\ normalized = NotCalled
SpecCard == InitCard /\ [][NextCard]_vars

\* ------------------------------------------------------ buildAuthHeaders
\* The number of calls made with one config
MaxCalls == 2

\* The configs buildAuthHeaders can be given: undefined, or an AgentAuthConfig
\* of any type with any of its optional fields set, empty or left out
AuthArgs ==
  {AbsentAuth}
  \cup {AuthConfig(type, token, apiKeyHeader, apiKeyValue, customHeaders) :
          type \in {"none", "bearer", "apiKey", "custom"},
          token \in {NoVal, "", "tok"},
          apiKeyHeader \in {NoVal, "", "x-api-key"},
          apiKeyValue \in {NoVal, "", "key"},
          customHeaders \in {{}, {<<"client_id", "id">>},
                             {<<"client_id", "id">>, <<"X-Trace", "">>}}}

\* One call of buildAuthHeaders(auth): it builds a fresh map and assigns to
\* nothing else
BuildAuthHeaders ==
  /\ Len(builtHeaders) < MaxCalls
  /\ builtHeaders' = Append(builtHeaders, buildAuthHeaders(authConfig))
  /\ UNCHANGED <<authConfig, cardVars, textVars, readerVars, besideLib>>

NextAuth == BuildAuthHeaders
InitAuth ==
  /\ HookInit /\ PageIdle /\ RouteIdle /\ rpcBuild = "route.ts" /\ CardIdle /\ TextIdle
  /\ ReaderIdle
  /\ authConfig \in AuthArgs /\ builtHeaders = <<>>
SpecAuth == InitAuth /\ [][NextAuth]_vars

\* --------------------------------------------------- extractResponseText
\* An object with no member the extractor knows
PlainObject ==
  RichPayload("none", NoVal, NoVal, NoVal, NoVal, NoParts, NoParts, <<>>, <<>>, NoResult,
              "none", "none", NoVal, NoVal, NoVal)
\* Values that are no object, and an array
StringPayload(s) == [PlainObject EXCEPT !.kind = "string", !.literal = s]
Primitives ==
  {NullPayload, Unset, StringPayload("plain text"), StringPayload(""),
   [PlainObject EXCEPT !.kind = "number", !.literal = "42"],
   [PlainObject EXCEPT !.kind = "array"]}

\* Objects with an error member, an error under data, or both; an error
\* member that is a string has its text in errMessage
ErrorShapes ==
  {[PlainObject EXCEPT !.kind = kind, !.error = error, !.dataError = dataError,
                       !.errCode = code, !.errMessage = message] :
     kind \in {"none", "task"}, error \in {"none", "string", "object", "other"},
     dataError \in {"none", "object"}, code \in {NoVal, "-32601", "0", "E42"},
     message \in {NoVal, "", "Method not found"}}
ErrorPayloads == {p \in ErrorShapes : p.error = "string" => p.errMessage # NoVal}

HistoryEntry(role, parts) == [role |-> role, parts |-> parts]
Artifact(name, parts) == [name |-> name, parts |-> parts]
DataPart == Part("data", NoVal)
StatusPartsValues ==
  {NoParts, Parts(<<DataPart>>), Parts(<<DataPart, TextPart("status text")>>),
   Parts(<<TextPart(""), TextPart("second")>>)}
HistoryValues ==
  {<<>>,
   <<HistoryEntry("user", Parts(<<TextPart("question")>>))>>,
   <<HistoryEntry("agent", Parts(<<TextPart("older")>>)),
     HistoryEntry("agent", Parts(<<TextPart("newer")>>)),
     HistoryEntry("user", Parts(<<TextPart("question")>>))>>,
   <<HistoryEntry("agent", Parts(<<TextPart("older")>>)),
     HistoryEntry("agent", Parts(<<DataPart>>))>>,
   <<HistoryEntry("agent", NoParts)>>}
ArtifactsValues ==
  {<<>>,
   <<Artifact("report", Parts(<<TextPart("a" \o NL \o "b")>>))>>,
   <<Artifact(NoVal, Parts(<<DataPart, TextPart("x")>>)), Artifact("empty", Parts(<<DataPart>>)),
     Artifact("report", Parts(<<TextPart("y")>>))>>,
   <<Artifact("empty", NoParts)>>}
TaskStates ==
  {NoVal, "", "submitted", "working", "input-required", "completed", "failed", "canceled",
   "paused"}
TaskPayloads ==
  {[PlainObject EXCEPT !.kind = "task", !.id = "t1", !.state = state,
                       !.statusMessage = statusMessage, !.statusParts = statusParts,
                       !.history = history, !.artifacts = artifacts] :
     state \in TaskStates, statusMessage \in {NoVal, "", "raw status"},
     statusParts \in StatusPartsValues, history \in HistoryValues,
     artifacts \in ArtifactsValues}
ResultValues ==
  {NoResult, Result("string", "legacy"), Result("object", "legacy text"),
   Result("object", NoVal), Result("number", NoVal)}
\* Messages, and objects of no kind, with and without the legacy result member
OtherPayloads ==
  {[PlainObject EXCEPT !.kind = kind, !.parts = parts, !.result = result] :
     kind \in {"none", "message"},
     parts \in {NoParts, Parts(<<>>), Parts(<<DataPart, TextPart("pong")>>),
                Parts(<<TextPart("")>>)},
     result \in ResultValues}
ExtractPayloads == Primitives \cup ErrorPayloads \cup TaskPayloads \cup OtherPayloads

\* The call of extractResponseText(data) returns
ExtractResponseText ==
  /\ ~extracted.returned
  /\ extracted' = [returned |-> TRUE, text |-> extractResponseText(extractInput)]
  /\ UNCHANGED <<extractInput, cardVars, authVars, readerVars, besideLib>>

NextExtract == ExtractResponseText
InitExtract ==
  /\ HookInit /\ PageIdle /\ RouteIdle /\ rpcBuild = "route.ts" /\ CardIdle /\ AuthIdle
  /\ ReaderIdle
  /\ extractInput \in ExtractPayloads /\ extracted = NotExtracted
SpecExtract == InitExtract /\ [][NextExtract]_vars

\* ----------------------------------------------- reading a response body
\* The most lines a response body holds
MaxLines == 2

\* A piece of the body's text.  The prefix "data: " is two pieces, so that a
\* read can end inside it; the JSON text of a frame is two pieces, its first
\* half and its second; "[DONE]" and the newline are one piece each.
Piece(text, half, frame) == [text |-> text, half |-> half, frame |-> frame]
Da == Piece("da", 0, NullPayload)
Ta == Piece("ta: ", 0, NullPayload)
Newline == Piece("\n", 0, NullPayload)
DoneSentinel == Piece("[DONE]", 0, NullPayload)
Json(half, frame) == Piece("json", half, frame)

\* A line the route writes: a frame, or the sentinel that closes the stream
FrameLine(frame) == [done |-> FALSE, frame |-> frame]
DoneLine == [done |-> TRUE, frame |-> NullPayload]
\* encoder.encode("data: " + JSON.stringify(result) + "\n\n")
Encoded(ln) ==
  IF ln.done THEN <<Da, Ta, DoneSentinel, Newline, Newline>>
  ELSE <<Da, Ta, Json(1, ln.frame), Json(2, ln.frame), Newline, Newline>>
RECURSIVE BodyOf(_)
BodyOf(lns) == IF lns = <<>> THEN <<>> ELSE Encoded(Head(lns)) \o BodyOf(Tail(lns))

\* chunk.split("\n")
RECURSIVE SplitLines(_)
SplitLines(chunk) ==
  LET breaks == {i \in 1..Len(chunk) : chunk[i] = Newline}
  IN IF breaks = {} THEN <<chunk>>
     ELSE <<SubSeq(chunk, 1, FirstOf(breaks) - 1)>>
            \o SplitLines(SubSeq(chunk, FirstOf(breaks) + 1, Len(chunk)))

\* line.startsWith("data: ") and line.slice(6)
StartsWithData(line) == Len(line) >= 2 /\ line[1] = Da /\ line[2] = Ta
DataOf(line) == SubSeq(line, 3, Len(line))
\* JSON.parse(data) returns for the whole text of a frame and throws for less
Parses(data) ==
  /\ Len(data) = 2
  /\ data[1].text = "json" /\ data[1].half = 1
  /\ data[2].text = "json" /\ data[2].half = 2
  /\ data[1].frame = data[2].frame

\* The frames the for loop over the lines of one chunk parses and applies
RECURSIVE ParsedOf(_)
ParsedOf(lns) ==
  IF lns = <<>> THEN <<>>
  ELSE LET line == Head(lns)
           data == DataOf(line)
       IN (IF StartsWithData(line) /\ data # <<DoneSentinel>> /\ Parses(data)
           THEN <<data[1].frame>> ELSE <<>>)
          \o ParsedOf(Tail(lns))

\* const {done, value} = await reader.read() returned the next n pieces
ReadChunk(n) ==
  LET chunk == SubSeq(unread, 1, n)
  IN
  /\ ~readerDone
  /\ n \in 1..Len(unread)
  /\ unread' = SubSeq(unread, n + 1, Len(unread))
  /\ applied' = applied \o ParsedOf(SplitLines(chunk))
  /\ lineCut' = (lineCut \/ (chunk[n] # Newline /\ unread[n + 1] # Newline))
  /\ UNCHANGED <<streamBody, readerDone, cardVars, authVars, textVars, besideLib>>

\* reader.read() returned done: the loop is left
ReadDone ==
  /\ ~readerDone
  /\ unread = <<>>
  /\ readerDone' = TRUE
  /\ UNCHANGED <<streamBody, unread, applied, lineCut, cardVars, authVars, textVars,
                 besideLib>>

\* The locals of the loop and what the frames applied so far have left behind
LoopStart ==
  [accumulatedContent |-> "", lastEventData |-> NullPayload, streamErrorMsg |-> NoVal,
   contextId |-> NoVal, taskId |-> NoVal]
LoopStep(loop, parsed) ==
  [accumulatedContent |-> AccumulatedAfter(loop.accumulatedContent, parsed),
   lastEventData |-> parsed,
   streamErrorMsg |-> IF parsed.error = "none" THEN loop.streamErrorMsg
                      ELSE parsed.errMessage,
   contextId |-> IF parsed.contextId # NoVal /\ parsed.contextId # ""
                 THEN parsed.contextId ELSE loop.contextId,
   taskId |-> IF parsed.id # NoVal /\ parsed.id # "" /\ parsed.state = "input-required"
              THEN parsed.id
              ELSE IF parsed.state \in {"completed", "failed", "canceled"} THEN NoVal
              ELSE loop.taskId]
RECURSIVE LoopAfter(_, _)
LoopAfter(loop, frames) ==
  IF frames = <<>> THEN loop ELSE LoopAfter(LoopStep(loop, Head(frames)), Tail(frames))
\* What the exchange ends with after the frames: the finalized message, the
\* context id and active task id of the agent, the logged response
OutcomeOf(frames) ==
  LET loop == LoopAfter(LoopStart, frames)
      finalContent == IF loop.accumulatedContent # "" THEN loop.accumulatedContent
                      ELSE extractResponseText(loop.lastEventData)
      isError == \/ loop.streamErrorMsg # NoVal
                 \/ loop.lastEventData.error # "none"
                 \/ extractErrorSummary(loop.lastEventData) # NoVal
  IN [content |-> IF loop.streamErrorMsg # NoVal THEN loop.streamErrorMsg ELSE finalContent,
      isError |-> isError, contextId |-> loop.contextId, taskId |-> loop.taskId,
      responsePayload |-> loop.lastEventData]

\* The frames among the lines the server wrote
RECURSIVE FramesOf(_)
FramesOf(lns) ==
  IF lns = <<>> THEN <<>>
  ELSE (IF Head(lns).done THEN <<>> ELSE <<Head(lns).frame>>) \o FramesOf(Tail(lns))

\* The lines a body is made of, and the bodies of up to MaxLines lines
BodyLines ==
  {FrameLine(f) : f \in {MessageFrame, StatusFrame, RpcErrorFrame,
                         TaskFrame("t1", "input-required")}} \cup {DoneLine}
Bodies == UNION {[1..n -> BodyLines] : n \in 1..MaxLines}

NextReader == (\E n \in 1..(6 * MaxLines) : ReadChunk(n)) \/ ReadDone
InitReader ==
  /\ HookInit /\ PageIdle /\ RouteIdle /\ rpcBuild = "route.ts"
  /\ CardIdle /\ AuthIdle /\ TextIdle
  /\ streamBody \in Bodies
  /\ unread = BodyOf(streamBody)
  /\ applied = <<>>
  /\ readerDone = FALSE
  /\ lineCut = FALSE
SpecReader == InitReader /\ [][NextReader]_vars

\* ------------------------------------------------------------- properties
Range(s) == {s[i] : i \in 1..Len(s)}

\* Key b has the same entry, or is absent, in a mapping before and after a step
SameEntry(before, after, b) ==
  /\ Has(before, b) = Has(after, b)
  /\ Has(before, b) => before[b] = after[b]

\* Agent b's entry in every per-agent mapping is untouched by the step
SameStore(b) ==
  /\ SameEntry(messagesByAgent, messagesByAgent', b)
  /\ SameEntry(rpcLogsByAgent, rpcLogsByAgent', b)
  /\ SameEntry(endpointByAgent, endpointByAgent', b)
  /\ SameEntry(endpointOverrideByAgent, endpointOverrideByAgent', b)
  /\ SameEntry(methodByAgent, methodByAgent', b)
  /\ SameEntry(contextIdByAgent, contextIdByAgent', b)
  /\ SameEntry(taskIdByAgent, taskIdByAgent', b)
  /\ SameEntry(authByAgent, authByAgent', b)
  /\ SameEntry(trackedTasksByAgent, trackedTasksByAgent', b)

\* The step applies payload p to exchange k: as a frame of its stream, or as
\* the body of its non-streaming response
Applies(k, p) == StreamFrame(k, p) \/ RpcReply(k, RpcOk(p))

\* C1: a frame or response carrying task id T with state input-required makes T
\* the active task id of the exchange's agent; one reporting state completed
\* clears it; and every request that is sent carries as params.id the active
\* task id its agent has at that moment (none when there is none).
C1_ActiveTaskId ==
  [][/\ \A k \in DOMAIN exchanges, p \in Frames :
          Applies(k, p) =>
            /\ (p.id # NoVal /\ p.state = "input-required")
                 => Get(taskIdByAgent', exchanges[k].agent, NoVal) = p.id
            /\ p.state = "completed" => ~Has(taskIdByAgent', exchanges[k].agent)
     /\ \A k \in (DOMAIN exchanges') \ (DOMAIN exchanges) :
          exchanges'[k].payload.params.id
            = Get(taskIdByAgent, exchanges'[k].agent, NoVal)]_vars

\* A send that carried params.id = t1 (set by an earlier input-required frame)
\* has received the completed frame and the active task id is gone.
C1_Witness ==
  \E k \in DOMAIN exchanges :
    /\ exchanges[k].payload.params.id = "t1"
    /\ exchanges[k].lastEventData = TaskFrame("t1", "completed")
    /\ ~Has(taskIdByAgent, exchanges[k].agent)

\* C2: an exchange uses the streaming transport exactly when its method is
\* message/stream or its agent's card declares streaming.
C2_StreamingWhenForcedOrSupported ==
  \A k \in DOMAIN exchanges :
    exchanges[k].streaming
      = (exchanges[k].method = "message/stream" \/ Cards[exchanges[k].agent].streaming)

UserCount(msgs) == Cardinality({i \in 1..Len(msgs) : msgs[i].role = "user"})

\* C3: a retry removes the failed assistant message and leaves the number of
\* user messages of the agent as it was.
C3_RetryAddsNoUserMessage ==
  [][\A id \in 1..(nextId - 1) :
       HandleRetry(id) =>
         LET before == Get(messagesByAgent, selectedAgent.id, <<>>)
             after == Get(messagesByAgent', selectedAgent.id, <<>>)
         IN /\ \A i \in 1..Len(after) : after[i].id # id
            /\ UserCount(after) = UserCount(before)]_vars

HasErrorMessage(msgs, a, id) ==
  \E i \in 1..Len(Get(msgs, a, <<>>)) :
    msgs[a][i].id = id /\ msgs[a][i].role = "assistant" /\ msgs[a][i].status = "error"

\* C4: every transport failure of an exchange, thrown or relayed as an
\* {ok: false, error} reply, sets the chat error, leaves an assistant message
\* with status error for the exchange and lets the next send through.
C4_TransportFailureSurfaced ==
  [][\A k \in DOMAIN exchanges :
       LET x == exchanges[k]
           failed == \/ \E e \in {StreamNotOkMsg, StreamThrowMsg} : StreamFail(k, e)
                     \/ RpcThrow(k)
                     \/ \E d \in RpcReplies : ~d.ok /\ RpcReply(k, d)
       IN failed =>
            /\ chatError' # NoVal
            /\ HasErrorMessage(messagesByAgent', x.agent,
                               IF x.streaming THEN x.assistantMessageId
                               ELSE x.replyMessageId)
            /\ ~sending']_vars

\* C5: a log entry is pending only while its exchange is in flight, and an
\* entry whose completion fields are set is never modified afterwards.
C5_LogCompletedExactlyOnce ==
  [][/\ \A a \in DOMAIN rpcLogsByAgent' : \A i \in 1..Len(rpcLogsByAgent'[a]) :
          rpcLogsByAgent'[a][i].completedAt = -1
            => rpcLogsByAgent'[a][i].id \in DOMAIN exchanges'
     /\ \A a \in (DOMAIN rpcLogsByAgent) \cap (DOMAIN rpcLogsByAgent') :
          \A i \in 1..Len(rpcLogsByAgent[a]) :
            rpcLogsByAgent[a][i].completedAt # -1
              => rpcLogsByAgent[a][i] \in Range(rpcLogsByAgent'[a])]_vars

\* The eight mappings handleDeleteAgent is said to clear hold nothing for id
ClearedFor(id) ==
  /\ ~Has(messagesByAgent', id)
  /\ ~Has(rpcLogsByAgent', id)
  /\ ~Has(endpointByAgent', id)
  /\ ~Has(methodByAgent', id)
  /\ ~Has(contextIdByAgent', id)
  /\ ~Has(taskIdByAgent', id)
  /\ ~Has(authByAgent', id)
  /\ ~Has(trackedTasksByAgent', id)

\* C6: the step that removes agent id from the agent list removes only that
\* agent, removes id's entry from the messages, logs, endpoint, method, context
\* id, active task id, auth and tracked-task mappings, sets the selection to
\* null if id was selected and leaves it otherwise, and leaves every other
\* agent's entries unchanged.
C6_DeleteAgentClearsMappings ==
  [][\A id \in AgentIds :
       (IsRegistered(id) /\ ~IsRegistered(id)') =>
         LET Others(c) == c.id # id
         IN /\ agents' = SelectSeq(agents, Others)
            /\ ClearedFor(id)
            /\ selectedAgentId' = IF selectedAgentId = id THEN NoVal ELSE selectedAgentId
            /\ \A b \in AgentIds \ {id} : SameStore(b)]_vars

\* The selected agent a1, which had a conversation and an active task, was
\* deleted while its exchange was in flight; a2 is still registered.
C6_Witness ==
  /\ ~IsRegistered("a1") /\ IsRegistered("a2")
  /\ selectedAgentId = NoVal
  /\ ~Has(messagesByAgent, "a1") /\ ~Has(taskIdByAgent, "a1")
  /\ \E k \in DOMAIN exchanges :
       /\ exchanges[k].agent = "a1"
       /\ exchanges[k].lastEventData = TaskFrame("t1", "input-required")

\* C7: after the step that removes agent id, no per-agent mapping of the data
\* model, the endpoint override included, holds an entry for id.
C7_DeleteAgentClearsEveryMapping ==
  [][\A id \in AgentIds :
       (IsRegistered(id) /\ ~IsRegistered(id)') =>
         ClearedFor(id) /\ ~Has(endpointOverrideByAgent', id)]_vars

\* C8: handleNewConversation empties the selected agent's messages and removes
\* its context id and active task id; its tracked tasks, auth, endpoint,
\* endpoint override, method, logs and registration, and every entry of every
\* other agent, stay as they were.
C8_NewConversationFrame ==
  [][HandleNewConversation =>
       LET a == selectedAgent.id
       IN /\ Has(messagesByAgent', a) /\ messagesByAgent'[a] = <<>>
          /\ ~Has(contextIdByAgent', a)
          /\ ~Has(taskIdByAgent', a)
          /\ SameEntry(trackedTasksByAgent, trackedTasksByAgent', a)
          /\ SameEntry(authByAgent, authByAgent', a)
          /\ SameEntry(endpointByAgent, endpointByAgent', a)
          /\ SameEntry(endpointOverrideByAgent, endpointOverrideByAgent', a)
          /\ SameEntry(methodByAgent, methodByAgent', a)
          /\ SameEntry(rpcLogsByAgent, rpcLogsByAgent', a)
          /\ agents' = agents
          /\ \A b \in AgentIds \ {a} : SameStore(b)]_vars

\* A conversation of a1 that had a context id, an active task and a tracked
\* task was reset: messages, context id and task id are gone, the tracked task
\* and the log entry are still there.
C8_Witness ==
  /\ Has(messagesByAgent, "a1") /\ messagesByAgent["a1"] = <<>>
  /\ ~Has(contextIdByAgent, "a1") /\ ~Has(taskIdByAgent, "a1")
  /\ Get(trackedTasksByAgent, "a1", <<>>) # <<>>
  /\ Get(rpcLogsByAgent, "a1", <<>>) # <<>>
  /\ \E k \in DOMAIN exchanges :
       /\ exchanges[k].agent = "a1"
       /\ exchanges[k].lastEventData = TaskFrame("t1", "input-required")

\* C9: a send touches only the selected agent's entries, and every later step
\* of an exchange or task fetch started for agent A (stream opened, frame,
\* skipped line, end of stream, failure, response) touches only A's entries,
\* whichever agent is selected when it happens.
C9_UpdatesStayUnderOwnAgent ==
  [][/\ \A t \in Texts :
          HandleSendMessage(t) => \A b \in AgentIds \ {selectedAgent.id} : SameStore(b)
     /\ \A k \in DOMAIN exchanges :
          (\/ StreamOpen(k)
           \/ \E p \in Frames : StreamFrame(k, p)
           \/ StreamSkippedLine(k)
           \/ StreamEnd(k)
           \/ \E e \in {StreamNotOkMsg, StreamThrowMsg} : StreamFail(k, e)
           \/ \E d \in RpcReplies : RpcReply(k, d)
           \/ RpcThrow(k))
          => \A b \in AgentIds \ {exchanges[k].agent} : SameStore(b)
     /\ \A f \in fetches :
          (\/ \E st \in States \cup {NoVal} : FetchReply(f, st)
           \/ FetchFail(f, "Failed to fetch task"))
          => \A b \in AgentIds \ {f.agent} : SameStore(b)]_vars

\* Both agents are registered, a2 is selected, and the exchange started for a1
\* has applied a frame: a1 holds the context id, the active task id and the
\* tracked task, a2 holds nothing.
C9_Witness ==
  /\ IsRegistered("a1") /\ IsRegistered("a2")
  /\ selectedAgentId = "a2"
  /\ \E k \in DOMAIN exchanges :
       /\ exchanges[k].agent = "a1"
       /\ exchanges[k].lastEventData = TaskFrame("t1", "input-required")
  /\ Get(contextIdByAgent, "a1", NoVal) = "c1"
  /\ Get(taskIdByAgent, "a1", NoVal) = "t1"
  /\ Get(trackedTasksByAgent, "a1", <<>>) # <<>>
  /\ ~Has(contextIdByAgent, "a2") /\ ~Has(taskIdByAgent, "a2")
  /\ ~Has(trackedTasksByAgent, "a2") /\ ~Has(messagesByAgent, "a2")

\* C10: no tracked-task list holds two entries for one taskId, and an entry
\* that is in an agent's list before and after a step has the same createdAt.
C10_CreatedAtFixed ==
  [][/\ \A a \in DOMAIN trackedTasksByAgent' :
          \A i, j \in 1..Len(trackedTasksByAgent'[a]) :
            trackedTasksByAgent'[a][i].taskId = trackedTasksByAgent'[a][j].taskId
              => i = j
     /\ \A a \in (DOMAIN trackedTasksByAgent) \cap (DOMAIN trackedTasksByAgent') :
          \A i \in 1..Len(trackedTasksByAgent[a]), j \in 1..Len(trackedTasksByAgent'[a]) :
            trackedTasksByAgent[a][i].taskId = trackedTasksByAgent'[a][j].taskId
              => trackedTasksByAgent'[a][j].createdAt
                   = trackedTasksByAgent[a][i].createdAt]_vars

\* A task observed again after its first observation, now completed: its entry
\* was updated later than it was created.
C10_Witness ==
  \E a \in DOMAIN trackedTasksByAgent : \E i \in 1..Len(trackedTasksByAgent[a]) :
    /\ trackedTasksByAgent[a][i].lastUpdated > trackedTasksByAgent[a][i].createdAt
    /\ trackedTasksByAgent[a][i].state = "completed"

\* The message with the given id in agent a's chat, when there is one
HasMessage(msgs, a, id) ==
  \E i \in 1..Len(Get(msgs, a, <<>>)) : msgs[a][i].id = id
MessageOf(msgs, a, id) ==
  msgs[a][FirstOf({i \in 1..Len(msgs[a]) : msgs[a][i].id = id})]

\* The payload reports a protocol-level error: a JSON-RPC error object, or a
\* task whose status says it failed
ProtocolError(p) ==
  p.kind \notin {"null", "unset"} /\ (p.error = "object" \/ (p.kind = "task" /\ p.state = "failed"))

\* C11: when an exchange is finalized (the stream ended, or the non-streaming
\* reply arrived), its assistant message gets status error and the chat error
\* is set whenever a streaming frame carried an explicit error or the final
\* payload reports a protocol-level error (JSON-RPC error object or failed
\* task status); in every other case the message gets status complete.
C11_ErrorStatusOnFinalize ==
  [][/\ \A k \in DOMAIN exchanges :
          StreamEnd(k) =>
            LET x == exchanges[k]
                m == MessageOf(messagesByAgent', x.agent, x.assistantMessageId)
                failed == x.streamErrorMsg # NoVal \/ ProtocolError(x.lastEventData)
            IN HasMessage(messagesByAgent', x.agent, x.assistantMessageId) =>
                 IF failed THEN m.status = "error" /\ chatError' # NoVal
                 ELSE m.status = "complete"
     /\ \A k \in DOMAIN exchanges, p \in Frames :
          RpcReply(k, RpcOk(p)) =>
            LET x == exchanges[k]
                m == MessageOf(messagesByAgent', x.agent, x.replyMessageId)
            IN IF ProtocolError(p) THEN m.status = "error" /\ chatError' # NoVal
               ELSE m.status = "complete"]_vars

\* C12: a data line whose payload is not valid JSON is skipped: it changes no
\* message, log, mapping or chat error and nothing the exchange has collected,
\* the exchange goes on reading its stream, and a stream is finalized with
\* status error only when one of its parsed frames carried an error.
C12_MalformedLineSkipped ==
  [][\A k \in DOMAIN exchanges :
       /\ StreamSkippedLine(k) =>
            /\ UNCHANGED <<agents, selectedAgentId, storeVars, chatError, sending>>
            /\ exchanges' = exchanges
            /\ exchanges'[k].pc = "read"
       /\ StreamEnd(k) =>
            LET x == exchanges[k]
            IN (/\ x.streamErrorMsg = NoVal /\ x.lastEventData.error = "none"
                /\ HasMessage(messagesByAgent', x.agent, x.assistantMessageId))
                 => MessageOf(messagesByAgent', x.agent, x.assistantMessageId).status
                      = "complete"]_vars

\* The only send so far streamed two lines: one was skipped, the other was the
\* frame of a completed task (observed once), and the message was finalized as
\* complete with that task's fallback sentence.
C12_Witness ==
  /\ ops = 1 /\ lines = 2 /\ exchanges = EmptyMap /\ chatError = NoVal
  /\ Len(Get(trackedTasksByAgent, "a1", <<>>)) = 1
  /\ trackedTasksByAgent["a1"][1].lastUpdated = trackedTasksByAgent["a1"][1].createdAt
  /\ \E i \in 1..Len(Get(messagesByAgent, "a1", <<>>)) :
        /\ messagesByAgent["a1"][i].role = "assistant"
        /\ messagesByAgent["a1"][i].status = "complete"
        /\ messagesByAgent["a1"][i].content = "Task completed."

\* The sentences extractResponseText falls back to from a task state
StateFallbackSentences ==
  {"Task submitted, waiting for agent...", "Agent is working on your request...",
   "Agent requires additional input.", "Task completed.", "Task failed.",
   "Task was canceled.", "Task status: unknown"}
     \cup {"Task status: " \o st : st \in States}

\* C13: a stream that ends without any parsed frame (its body held only the
\* [DONE] sentinel) still finalizes the assistant message: the status leaves
\* streaming and is not error, no chat error is raised, and the content is a
\* state-based fallback sentence, never the empty string.
C13_DoneOnlyStreamFinalized ==
  [][\A k \in DOMAIN exchanges :
       (/\ StreamEnd(k)
        /\ exchanges[k].lastEventData = NullPayload
        /\ HasMessage(messagesByAgent', exchanges[k].agent,
                      exchanges[k].assistantMessageId))
         => LET m == MessageOf(messagesByAgent', exchanges[k].agent,
                               exchanges[k].assistantMessageId)
            IN /\ m.status = "complete"
               /\ chatError' = chatError
               /\ m.content # ""
               /\ m.content \in StateFallbackSentences]_vars

\* The method the selected agent's next message would be sent with
SelectedMethod == Get(methodByAgent, selectedAgent.id, DEFAULT_METHOD)

\* The step creates no message, no log entry and no request, and leaves every
\* per-agent mapping as it was
NothingSent ==
  UNCHANGED <<agents, selectedAgentId, storeVars, exchanges, sending, nextId>>

\* C19: handleSendMessage with a method other than message/send and
\* message/stream sets a chat error and creates no user message, no log entry
\* and no request, leaving every per-agent mapping unchanged; with a blank
\* message text it creates nothing either and leaves the chat error as it was.
C19_RejectedSendCreatesNothing ==
  [][\A t \in Texts \cup {BlankText} :
       (HandleSendMessage(t) /\ HasSelectedAgent) =>
         /\ (trim(t) # "" /\ SelectedMethod \notin {"message/send", "message/stream"})
              => NothingSent /\ chatError' # NoVal
         /\ trim(t) = "" => NothingSent /\ chatError' = chatError]_vars

\* tasks/get is selected, a send was attempted, and there is the chat error
\* with no message, log entry or request.
C19_Witness ==
  /\ HasSelectedAgent /\ SelectedMethod = "tasks/get"
  /\ chatError = "Use the Tasks panel to fetch task status."
  /\ messagesByAgent = EmptyMap /\ rpcLogsByAgent = EmptyMap /\ exchanges = EmptyMap

\* C19 as stated: a blank message text, too, makes handleSendMessage set a
\* chat error.
C19_BlankTextSetsChatError ==
  [][\A t \in Texts \cup {BlankText} :
       (HandleSendMessage(t) /\ HasSelectedAgent) =>
         ((trim(t) = "" \/ SelectedMethod \notin {"message/send", "message/stream"})
            => (NothingSent /\ chatError' # NoVal))]_vars

\* C16: useTaskPolling never has more than one fetch in flight, and its
\* in-progress flag is set exactly while a fetch is in flight: a tick or a
\* manual pollTask in the meantime issues nothing, and every outcome of the
\* fetch releases the flag.
C16_OneFetchOutstanding ==
  /\ Len(polls) <= 1
  /\ hook.isPollingRef <=> Len(polls) = 1

\* A fetch has had its outcome and the next one is in flight while the
\* interval is still set.
C16_Witness ==
  /\ Len(polls) = 1 /\ calls.cbs # {} /\ timers # {} /\ hook.isPollingRef

C18_AbandonedResultDiscarded ==
  [][/\ (Unmount \/ \E taskId \in TaskIds \cup {NoVal} : Render(FALSE, taskId))
          => timers' = {}
     /\ \A i \in 1..Len(polls) :
          (/\ polls[i].abandoned
           /\ \/ \E taskState \in PollStates : PollReply(i, taskState)
              \/ \E error \in PollErrors : PollFail(i, error))
            => calls' = calls /\ timers' = timers]_vars

\* C14: a message request as the page posts it (endpoint, supported method and
\* message present) whose auth is of type custom or apiKey and builds no header
\* makes the rpc route and the stream route send nothing to the agent, and is
\* answered with the 400 guidance error.
C14_MisconfiguredAuthRejected ==
  (/\ request.route \in {"rpc", "stream"}
   /\ request.endpointUrl # "" /\ request.validParams
   /\ request.method \in {"message/send", "message/stream"}
   /\ request.auth.type \in {"custom", "apiKey"}
   /\ buildAuthHeaders(request.auth) = {})
    => /\ outbound = <<>>
       /\ routePc = "done" /\ response = JsonResponse(400, FALSE, GuidanceError)

\* C15: every request a route sends to the agent carries the header map that
\* buildAuthHeaders produces for the auth configured for the agent.
C15_AuthHeadersOnEveryRequest ==
  request.route # NoVal =>
    \A i \in 1..Len(outbound) :
      buildAuthHeaders(request.agentAuth) \subseteq outbound[i].headers

\* The last event of a stream, "" when it has none
LastEvent(events) == IF events = <<>> THEN "" ELSE events[Len(events)]

Returned == normalized # NotCalled
\* name is absent, not a string, or blank
NameMissing(payload) == asString(payload.name) = ""
\* What is wrong with the endpoints of an object payload: every candidate
\* without a url, every candidate whose url does not parse, and the absence
\* of any usable endpoint
EndpointProblems(payload) ==
  LET candidates == collectEndpointCandidates(payload)
      missing == {i \in 1..Len(candidates) : urlOf(candidates[i].entry) = ""}
      invalid == {i \in 1..Len(candidates) : urlOf(candidates[i].entry) # ""
                                             /\ ~validateUrl(urlOf(candidates[i].entry))}
  IN {"Endpoint " \o ToString(i) \o " is missing a url." : i \in missing}
     \cup {"Endpoint " \o ToString(i) \o " has an invalid url." : i \in invalid}
     \cup (IF missing \cup invalid = 1..Len(candidates)
           THEN {"No endpoints found in card."} ELSE {})

\* C21: a payload whose name is missing is answered with a non-empty error
\* list and no card, and the list of an object payload holds, next to the
\* error of the name, every endpoint error of that payload.
C21_MissingNameCollectsAllErrors ==
  (Returned /\ NameMissing(cardInput)) =>
     /\ normalized.card = <<>>
     /\ Len(normalized.errors) > 0
     /\ asRecord(cardInput) =>
          /\ "Missing required field: name." \in Range(normalized.errors)
          /\ EndpointProblems(cardInput) \subseteq Range(normalized.errors)
\* A nameless card with an endpoint lacking a url and one with an invalid url
\* has been answered with the three errors and the one of the name
C21_Witness ==
  /\ Returned /\ NameMissing(cardInput) /\ asRecord(cardInput)
  /\ Cardinality(EndpointProblems(cardInput)) = 3
  /\ Len(normalized.errors) = 4

\* The card of scenario A: {"name":"Echo","url":"https://x/a",
\* "capabilities":{"streaming":false}}
EchoCard ==
  CardPayload(TRUE, Str("Echo"), Str("https://x/a"), Undefined, Undefined, NoEndpoints,
              NotARecord, Rec(Obj1("streaming", False)))
\* The card normalizeAgentCard returned
TheCard == normalized.card[1]
LastEndpoint == TheCard.endpoints[Len(TheCard.endpoints)]
\* A card has been returned for a payload whose root url is usable: the entry
\* made from it is the last candidate, hence the last endpoint
RootEndpointReturned ==
  /\ Returned /\ normalized.card # <<>>
  /\ validateUrl(asString(cardInput.url))

WellFormedWithRootUrl(payload) ==
  /\ asRecord(payload) /\ ~NameMissing(payload)
  /\ payload.url.type = "string" /\ validateUrl(payload.url.str)
\* The root url is the only endpoint the card declares
OnlyRootUrl(payload) ==
  payload.endpoints.shape = "undefined" /\ ~asRecord(payload.endpoint)

\* C23: a well-formed card with a root url that declares no endpoints (no
\* `endpoints` field and no `endpoint` object) is normalized with success, and
\* endpoints[0].url of the result is the declared root url, an absolute URL.
C23_RootUrlRoundTrip ==
  (Returned /\ WellFormedWithRootUrl(cardInput) /\ OnlyRootUrl(cardInput)) =>
     /\ normalized.card # <<>>
     /\ TheCard.endpoints[1].url = cardInput.url.str
     /\ validateUrl(TheCard.endpoints[1].url)
\* Such a card, with an id and a preferred transport, has been normalized
C23_Witness ==
  /\ Returned /\ WellFormedWithRootUrl(cardInput) /\ OnlyRootUrl(cardInput)
  /\ cardInput.preferredTransport # Undefined /\ cardInput.id # Undefined
  /\ normalized.card # <<>>
\* C23 as stated: it is enough that the card has no `endpoints` array, whatever
\* else it declares (here: endpoints whose urls all parse)
C23_RootUrlFirstWithoutEndpointsArray ==
  (Returned /\ WellFormedWithRootUrl(cardInput) /\ EndpointProblems(cardInput) = {}
            /\ cardInput.endpoints.shape # "array") =>
     /\ normalized.card # <<>>
     /\ TheCard.endpoints[1].url = cardInput.url.str
     /\ validateUrl(TheCard.endpoints[1].url)

\* No candidate of the payload carries a url that parses
NoValidEndpoint(payload) ==
  ~asRecord(payload)
  \/ \A i \in 1..Len(collectEndpointCandidates(payload)) :
        ~validateUrl(urlOf(collectEndpointCandidates(payload)[i].entry))

\* C24: a returned card has at least one endpoint, every endpoint url is an
\* absolute URL, and its id is not empty; a payload without any valid endpoint
\* gets errors and no card.
C24_ReturnedCardHasEndpoints ==
  Returned =>
    /\ normalized.card # <<>> =>
         /\ Len(TheCard.endpoints) > 0
         /\ \A i \in 1..Len(TheCard.endpoints) : validateUrl(TheCard.endpoints[i].url)
         /\ TheCard.id # ""
         /\ normalized.errors = <<>>
    /\ NoValidEndpoint(cardInput) =>
         normalized.card = <<>> /\ Len(normalized.errors) > 0
\* A named card without any endpoint candidate has been rejected with the
\* error of the missing endpoints alone
C24_Witness ==
  /\ Returned /\ asRecord(cardInput) /\ ~NameMissing(cardInput)
  /\ cardInput.endpoints.shape = "array" /\ Len(cardInput.endpoints.items) = 1
  /\ normalized = Failure(<<"No endpoints found in card.">>)

\* ------------------------------------------ properties of buildAuthHeaders
Present(value) == value # NoVal /\ value # ""
\* The header map the config calls for
HeadersFor(config) ==
  CASE config.type \in {"absent", "none"} -> {}
    [] config.type = "bearer" ->
         IF Present(config.token) THEN {<<"Authorization", "Bearer " \o config.token>>}
         ELSE {}
    [] config.type = "apiKey" ->
         IF Present(config.apiKeyHeader) /\ Present(config.apiKeyValue)
         THEN {<<config.apiKeyHeader, config.apiKeyValue>>} ELSE {}
    [] config.type = "custom" -> config.customHeaders
    [] OTHER -> {}

\* C25: every call of buildAuthHeaders returns the map its config calls for
\* (empty for absent or none, the Authorization header for a bearer token, the
\* one api-key header, the custom headers as they are), so that two calls with
\* one config return the same map, and no call changes the config.
C25_AuthHeadersPure ==
  /\ [](\A i \in 1..Len(builtHeaders) : builtHeaders[i] = HeadersFor(authConfig))
  /\ [][authConfig' = authConfig]_vars
\* Two calls with a custom config of two headers have returned
C25_Witness ==
  /\ Len(builtHeaders) = 2 /\ authConfig.type = "custom"
  /\ Cardinality(authConfig.customHeaders) = 2
  /\ builtHeaders[1] = builtHeaders[2] /\ builtHeaders[1] = authConfig.customHeaders

\* ------------------------------------------- properties of the extractor
\* The payload carries an error object: as its error member, or under data
\* when it has no error member of its own
CarriesErrorObject(payload) ==
  /\ IsObject(payload)
  /\ \/ payload.error = "object"
     \/ payload.error = "none" /\ payload.dataError = "object"
HasCode(payload) == payload.errCode \in Numerals
HasErrorText(payload) == payload.errMessage \notin {NoVal, ""}
\* The display text of an error object
ErrorText(payload) ==
  CASE HasCode(payload) /\ HasErrorText(payload) ->
         "Agent error " \o payload.errCode \o ": " \o payload.errMessage
    [] ~HasCode(payload) /\ HasErrorText(payload) -> "Agent error: " \o payload.errMessage
    [] HasCode(payload) /\ ~HasErrorText(payload) -> "Agent error " \o payload.errCode
    [] OTHER -> "Agent returned an error."

MatchesNoRule(payload) ==
  /\ ~(IsObject(payload) /\ payload.error = "string")
  /\ ~CarriesErrorObject(payload)
  /\ payload.kind \notin {"string", "task"}
  /\ ~(payload.kind = "message" /\ payload.parts.isArray
       /\ extractTextFromParts(payload.parts.items) \notin {NoVal, ""})
  /\ ~(IsObject(payload) /\ payload.result.type = "string")
  /\ ~(IsObject(payload) /\ payload.result.type = "object" /\ payload.result.maybeText # NoVal)

\* C27: extractResponseText returns a string for every payload, null and
\* undefined included, and for a payload that matches no rule the string is
\* its JSON text.
C27_AlwaysDisplayableString ==
  extracted.returned =>
    /\ extracted.text # NoVal
    /\ MatchesNoRule(extractInput) => extracted.text = formatJson(extractInput)
\* For every payload but undefined the call returns a string
C27_StringUnlessUndefined ==
  (extracted.returned /\ extractInput # Unset) =>
    /\ extracted.text # NoVal
    /\ MatchesNoRule(extractInput) => extracted.text = formatJson(extractInput)

\* A task payload that the error rules let through
PlainTask(payload) ==
  /\ payload.kind = "task" /\ payload.error # "string" /\ ~CarriesErrorObject(payload)
  /\ extractErrorSummary(payload) = NoVal
ArtifactsText(payload) ==
  IF extractArtifactsInfo(payload.artifacts) = NoVal THEN ""
  ELSE extractArtifactsInfo(payload.artifacts)
\* The section of one artifact named report whose text is the lines a and b
ReportSection ==
  NL \o NL \o "**Artifact:**" \o NL \o NL \o "> [clip] **report**" \o NL \o ">" \o NL
  \o "> [fence]json" \o NL \o "> a" \o NL \o "> b" \o NL \o "> [fence]"

\* C28: the text of a task is its status.message when that yields a text,
\* failing that the text of the last history entry of the agent that has one,
\* followed in both cases by the section of the artifacts that have a text;
\* the sentence of status.state is returned only when none of the three
\* yielded anything.
C28_TaskTextPriority ==
  (extracted.returned /\ PlainTask(extractInput)) =>
    LET status == StatusMessageText(extractInput)
        history == HistoryText(extractInput.history)
        artifacts == ArtifactsText(extractInput)
    IN /\ status # "" => extracted.text = status \o artifacts
       /\ (status = "" /\ history # "") => extracted.text = history \o artifacts
       /\ (status = "" /\ history = "" /\ artifacts # "") => extracted.text = artifacts
       /\ (status = "" /\ history = "" /\ artifacts = "") =>
             extracted.text = StateSentence(extractInput.state)
       /\ (extractInput.statusMessage = "raw status"
           /\ Len(extractInput.artifacts) = 1 /\ artifacts # "") =>
             extracted.text = "raw status" \o ReportSection
\* A task without status.message, whose history holds two agent texts and
\* whose one artifact has a text, has been shown as the newer agent text
\* followed by the artifact
C28_Witness ==
  /\ extracted.returned /\ PlainTask(extractInput)
  /\ StatusMessageText(extractInput) = "" /\ Len(extractInput.history) = 3
  /\ extracted.text = "newer" \o ReportSection

\* ----------------------------------------- properties of the page, continued
\* The text a frame yields: "pong" for the message, "thinking" for the task
\* with a status message, nothing for the others
YieldedContent(parsed) ==
  CASE parsed = MessageFrame -> "pong"
    [] parsed = StatusFrame -> "thinking"
    [] OTHER -> ""
\* The assistant placeholder of exchange k, in the message map msgs
HasPlaceholder(msgs, k) ==
  HasMessage(msgs, exchanges[k].agent, exchanges[k].assistantMessageId)
Placeholder(msgs, k) ==
  MessageOf(msgs, exchanges[k].agent, exchanges[k].assistantMessageId)

\* C29: each frame of a stream is applied when it is received, on top of the
\* frames before it: it becomes the latest frame of the exchange, and the
\* content of the assistant placeholder is then the text of this frame when it
\* yields one (replacing, not extending, the text shown before), and the
\* content shown before when it yields none.
C29_LastFrameWithContentShown ==
  [][\A k \in DOMAIN exchanges, parsed \in Frames :
       StreamFrame(k, parsed) =>
         /\ exchanges'[k].lastEventData = parsed
         /\ HasPlaceholder(messagesByAgent, k) =>
              /\ HasPlaceholder(messagesByAgent', k)
              /\ Placeholder(messagesByAgent', k).content =
                   IF YieldedContent(parsed) # "" THEN YieldedContent(parsed)
                   ELSE Placeholder(messagesByAgent, k).content]_vars
\* The one exchange there is has received the task frame that says "thinking"
\* and then the message frame: its placeholder shows "pong"
C29_Witness ==
  /\ lines = 2 /\ Cardinality(DOMAIN exchanges) = 1
  /\ \E k \in DOMAIN exchanges :
       /\ exchanges[k].lastEventData = MessageFrame
       /\ HasPlaceholder(messagesByAgent, k)
       /\ Placeholder(messagesByAgent, k).content = "pong"
       /\ \E i \in 1..Len(Get(trackedTasksByAgent, exchanges[k].agent, <<>>)) :
            trackedTasksByAgent[exchanges[k].agent][i].message = "thinking"

CarriesContextId(p) == p.contextId # NoVal /\ p.contextId # ""

\* C30: a frame or response that carries a context id makes it the context id
\* of the exchange's agent; every send carries as message.contextId the
\* context id its agent has at that moment, and none when the agent has none;
\* and an agent's context id changes only when such a frame or response
\* arrives, when a new conversation is started for it, or when it is deleted.
C30_ContextIdCarriedForward ==
  [][/\ \A k \in DOMAIN exchanges, p \in Frames :
          (Applies(k, p) /\ CarriesContextId(p))
            => Get(contextIdByAgent', exchanges[k].agent, NoVal) = p.contextId
     /\ \A k \in (DOMAIN exchanges') \ (DOMAIN exchanges) :
          exchanges'[k].payload.params.message.contextId
            = Get(contextIdByAgent, exchanges'[k].agent, NoVal)
     /\ \A a \in AgentIds :
          ~SameEntry(contextIdByAgent, contextIdByAgent', a) =>
             \/ \E k \in DOMAIN exchanges, p \in Frames :
                  Applies(k, p) /\ CarriesContextId(p) /\ exchanges[k].agent = a
             \/ HandleNewConversation /\ selectedAgent.id = a /\ ~Has(contextIdByAgent', a)
             \/ HandleDeleteAgent(a) /\ ~Has(contextIdByAgent', a)]_vars
\* An exchange received context id c1 with task t1 and then c2 with task t2,
\* and the send made after it carries c2
C30_Witness ==
  /\ lines = 2
  /\ \E k \in DOMAIN exchanges :
       /\ exchanges[k].pc = "fetch" /\ exchanges[k].lastEventData = NullPayload
       /\ exchanges[k].payload.params.message.contextId = "c2"
       /\ LET tasks == Get(trackedTasksByAgent, exchanges[k].agent, <<>>)
          IN \E i, j \in 1..Len(tasks) :
               /\ tasks[i].contextId = "c1" /\ tasks[j].contextId = "c2"
               /\ tasks[i].createdAt < tasks[j].createdAt

\* ------------------------------------------------ finalization of exchanges
\* The ids handleSendMessage can give a log entry, a placeholder or a reply
ExchangeIds == 1..(4 * MaxOps)
\* The transport of exchange k returns, ends or fails
Settles(k) ==
  /\ k \in DOMAIN exchanges
  /\ \/ StreamEnd(k)
     \/ \E e \in {StreamNotOkMsg, StreamThrowMsg} : StreamFail(k, e)
     \/ \E d \in RpcReplies : RpcReply(k, d)
     \/ RpcThrow(k)
\* The page when no fetch of an exchange stays unanswered for ever
SpecSettling == Spec /\ \A k \in ExchangeIds : WF_vars(Settles(k))

\* Message m of agent a is shown as unfinished
Unfinished(a, m) ==
  /\ HasMessage(messagesByAgent, a, m)
  /\ MessageOf(messagesByAgent, a, m).status \in {"pending", "streaming"}
\* Message m is the placeholder of an exchange of agent a that is in flight
PlaceholderInFlight(a, m) ==
  \E k \in DOMAIN exchanges :
    exchanges[k].streaming /\ exchanges[k].agent = a /\ exchanges[k].assistantMessageId = m

\* C31: an unfinished message is the placeholder of an exchange that is still in
\* flight, so none is left pending or streaming after its exchange has ended;
\* every exchange in flight ends once its transport settles, and a placeholder
\* shown as streaming does not remain so: it becomes complete or error (or is
\* removed with its conversation)
C31_PlaceholderFinalized ==
  /\ [](\A a \in AgentIds, m \in ExchangeIds : Unfinished(a, m) => PlaceholderInFlight(a, m))
  /\ [][\A k \in DOMAIN exchanges, a \in AgentIds :
          (Settles(k) /\ exchanges[k].streaming /\ exchanges[k].agent = a
             /\ HasMessage(messagesByAgent, a, exchanges[k].assistantMessageId))
          => MessageOf(messagesByAgent', a, exchanges[k].assistantMessageId).status
               \in {"complete", "error"}]_vars
  /\ \A k \in ExchangeIds : (k \in DOMAIN exchanges) ~> (k \notin DOMAIN exchanges)
  /\ \A a \in AgentIds, m \in ExchangeIds : Unfinished(a, m) ~> ~Unfinished(a, m)

\* A placeholder of a failed stream has become an error message and the
\* placeholder of a stream that ended has become a complete one
C31_Witness ==
  /\ exchanges = EmptyMap
  /\ \E a \in AgentIds :
       /\ \E m \in ExchangeIds :
            /\ HasMessage(messagesByAgent, a, m)
            /\ MessageOf(messagesByAgent, a, m).role = "assistant"
            /\ MessageOf(messagesByAgent, a, m).status = "error"
            /\ MessageOf(messagesByAgent, a, m).content = "Error: " \o StreamThrowMsg
       /\ \E m \in ExchangeIds :
            /\ HasMessage(messagesByAgent, a, m)
            /\ MessageOf(messagesByAgent, a, m).role = "assistant"
            /\ MessageOf(messagesByAgent, a, m).status = "complete"

\* ------------------------------------------------- retry after interleaving
\* Two different texts typed into the prompt, one after the other
EarlierText == "hi"
LaterText == "ping"
\* What handleSendMessage builds for text on a page whose maps are still empty
FirstPayload(text) ==
  [method |-> DEFAULT_METHOD,
   params |-> [message |-> [role |-> "user", text |-> text, contextId |-> NoVal],
               id |-> NoVal]]
FirstLog(c, id, text) ==
  [id |-> id, endpointUrl |-> EndpointOf(c), requestPayload |-> FirstPayload(text),
   requestHeaders |-> [accept |-> IF c.streaming THEN "text/event-stream"
                                  ELSE "application/json",
                       auth |-> buildAuthHeaders(NoAuth)],
   responsePayload |-> Unset, status |-> NoVal,
   startedAt |-> 0, completedAt |-> -1, durationMs |-> -1]
\* The page after EarlierText was sent to the first agent and its exchange
\* failed (the fetch rejected), and LaterText was sent and is in flight
InitRetry ==
  LET c == agents[1]
      failure == Payload("none", NoVal, NoVal, NoVal, NoVal, NoVal, "string", NoVal,
                         RpcThrowMsg)
  IN
  /\ HookInit
  /\ RouteIdle /\ rpcBuild = "route.ts"
  /\ LibIdle
  /\ agents \in StoredAgents \ {<<>>}
  /\ selectedAgentId = c.id
  /\ messagesByAgent = Put(EmptyMap, c.id,
       IF c.streaming
       THEN << ChatMessage(1, "user", EarlierText, "complete", NoVal),
               ChatMessage(3, "assistant", "Error: " \o StreamThrowMsg, "error",
                           StreamThrowMsg),
               ChatMessage(5, "user", LaterText, "complete", NoVal),
               ChatMessage(7, "assistant", "", "streaming", NoVal) >>
       ELSE << ChatMessage(1, "user", EarlierText, "complete", NoVal),
               ChatMessage(4, "assistant", "Request failed: " \o RpcThrowMsg, "error",
                           RpcThrowMsg),
               ChatMessage(5, "user", LaterText, "complete", NoVal) >>)
  /\ rpcLogsByAgent = Put(EmptyMap, c.id,
       << IF c.streaming THEN FirstLog(c, 2, EarlierText)
          ELSE [FirstLog(c, 2, EarlierText) EXCEPT !.responsePayload = failure,
                                                   !.completedAt = 0, !.durationMs = 0],
          FirstLog(c, 6, LaterText) >>)
  /\ endpointByAgent = EmptyMap
  /\ endpointOverrideByAgent = EmptyMap
  /\ methodByAgent = EmptyMap
  /\ contextIdByAgent = EmptyMap
  /\ taskIdByAgent = EmptyMap
  /\ authByAgent = EmptyMap
  /\ trackedTasksByAgent = EmptyMap
  /\ chatError = NoVal
  /\ sending = TRUE
  /\ fetchingTask = FALSE
  /\ exchanges = Put(EmptyMap, 6,
       [agent |-> c.id, streaming |-> c.streaming, method |-> DEFAULT_METHOD,
        endpointUrl |-> EndpointOf(c), payload |-> FirstPayload(LaterText),
        rpcLogId |-> 6, assistantMessageId |-> 7, replyMessageId |-> 8,
        auth |-> NoAuth, startedAt |-> 0, pc |-> "fetch",
        accumulatedContent |-> "", lastEventData |-> NullPayload,
        streamErrorMsg |-> NoVal])
  /\ fetches = {}
  /\ nextId = 9
  /\ now = 0
  /\ ops = 0
  /\ lines = 0
\* The steps of the chat panel: sends, retries and what their exchanges do; of
\* the frames a stream can carry, the one that reports an error
NextRetry ==
  \/ \E t \in Texts \cup {BlankText} : HandleSendMessage(t)
  \/ \E k \in DOMAIN exchanges : StreamOpen(k)
  \/ \E k \in DOMAIN exchanges : StreamFrame(k, StreamErrorFrame)
  \/ \E k \in DOMAIN exchanges : StreamEnd(k)
  \/ \E k \in DOMAIN exchanges, e \in {StreamNotOkMsg, StreamThrowMsg} : StreamFail(k, e)
  \/ \E k \in DOMAIN exchanges, d \in RpcReplies : RpcReply(k, d)
  \/ \E k \in DOMAIN exchanges : RpcThrow(k)
  \/ \E id \in 1..(nextId - 1) : HandleRetry(id)
SpecRetry == InitRetry /\ [][NextRetry]_vars

\* The ids one call of handleSendMessage draws are consecutive: the user
\* message, the log entry, the placeholder, the reply.  The log entry of the
\* exchange that produced assistant message m:
OriginLogId(m) == IF m % 4 = 3 THEN m - 1 ELSE m - 2
HasOrigin(a, m) ==
  \E i \in 1..Len(Get(rpcLogsByAgent, a, <<>>)) : rpcLogsByAgent[a][i].id = OriginLogId(m)
\* The text of the user message that originated the exchange of message m
OriginText(a, m) ==
  LET logs == rpcLogsByAgent[a]
  IN logs[FirstOf({i \in 1..Len(logs) : logs[i].id = OriginLogId(m)})]
       .requestPayload.params.message.text
\* The step is the retry of message m and sends a request
RetrySends(m) ==
  HandleRetry(m) /\ (DOMAIN exchanges') \ (DOMAIN exchanges) # {}

\* C32: the request a retry of failed message m sends carries the text of the
\* user message that originated the exchange of m
C32_RetryReplaysOriginatingText ==
  [][\A m \in 1..(nextId - 1) :
       (RetrySends(m) /\ HasOrigin(selectedAgent.id, m))
       => \A k \in (DOMAIN exchanges') \ (DOMAIN exchanges) :
            exchanges'[k].payload.params.message.text = OriginText(selectedAgent.id, m)]_vars

\* The same for the failed placeholder of a streaming exchange, which is
\* inserted right behind its user message when the request is sent
C32_StreamingRetryReplaysOriginatingText ==
  [][\A m \in 1..(nextId - 1) :
       (RetrySends(m) /\ HasOrigin(selectedAgent.id, m) /\ m % 4 = 3)
       => \A k \in (DOMAIN exchanges') \ (DOMAIN exchanges) :
            exchanges'[k].payload.params.message.text = OriginText(selectedAgent.id, m)]_vars

\* ---------------------------------------------- streams of one data frame
\* The exchanges of the page when a stream carries at most one data line that
\* parses (and any number of lines that are skipped) before it ends
NextOneFrame ==
  \/ \E t \in Texts \cup {BlankText} : HandleSendMessage(t)
  \/ \E k \in DOMAIN exchanges : StreamOpen(k)
  \/ \E k \in DOMAIN exchanges, p \in Frames :
       exchanges[k].lastEventData = NullPayload /\ StreamFrame(k, p)
  \/ \E k \in DOMAIN exchanges : StreamSkippedLine(k)
  \/ \E k \in DOMAIN exchanges : StreamEnd(k)
  \/ \E k \in DOMAIN exchanges, d \in RpcReplies : RpcReply(k, d)
SpecOneFrame == Init /\ [][NextOneFrame]_vars

\* The stream of exchange k ends after its one data frame, and the placeholder
\* is still in the list
EndsAfterOneFrame(k) ==
  /\ StreamEnd(k)
  /\ exchanges[k].lastEventData # NullPayload
  /\ HasMessage(messagesByAgent, exchanges[k].agent, exchanges[k].assistantMessageId)
FinalizedContent(k) ==
  MessageOf(messagesByAgent', exchanges[k].agent, exchanges[k].assistantMessageId).content

\* C33: a stream whose only data frame is P finalizes the assistant message
\* with the content extractResponseText(P), which is what the non-streaming
\* path shows for P
C33_StreamShowsExtractedText ==
  [][\A k \in DOMAIN exchanges :
       EndsAfterOneFrame(k)
       => FinalizedContent(k) = extractResponseText(exchanges[k].lastEventData)]_vars

\* The same for the frames that carry no error object
C33_StreamShowsExtractedTextUnlessErrorObject ==
  [][\A k \in DOMAIN exchanges :
       (EndsAfterOneFrame(k) /\ exchanges[k].lastEventData.error # "object")
       => FinalizedContent(k) = extractResponseText(exchanges[k].lastEventData)]_vars

\* ------------------------------------------------- deletion while in flight
RegisteredIds == {agents[i].id : i \in 1..Len(agents)}

\* C34: the keys of the per-agent mappings of messages, logs, context ids,
\* active task ids and tracked tasks belong to registered agents, in every
\* reachable state: what arrives for a deleted agent is discarded
C34_KeysBelongToRegisteredAgents ==
  /\ DOMAIN messagesByAgent \subseteq RegisteredIds
  /\ DOMAIN rpcLogsByAgent \subseteq RegisteredIds
  /\ DOMAIN contextIdByAgent \subseteq RegisteredIds
  /\ DOMAIN taskIdByAgent \subseteq RegisteredIds
  /\ DOMAIN trackedTasksByAgent \subseteq RegisteredIds

\* ------------------------------------------ active task and tracked tasks
\* C35: an agent's active task id T is the id of one of its tracked tasks,
\* and that entry's state is input-required
C35_ActiveTaskTrackedAsInputRequired ==
  \A a \in DOMAIN taskIdByAgent :
    \E i \in 1..Len(Get(trackedTasksByAgent, a, <<>>)) :
      /\ trackedTasksByAgent[a][i].taskId = taskIdByAgent[a]
      /\ trackedTasksByAgent[a][i].state = "input-required"

\* ------------------------------------------ terminal states and other tasks
\* The states that end a task, as handleSendMessage tests them
FinishedStates == {"completed", "failed", "canceled"}
\* Payload p reports a finished task that is not the active task of agent a
FinishesAnotherTask(a, p) ==
  /\ p.state \in FinishedStates
  /\ Has(taskIdByAgent, a)
  /\ p.id # taskIdByAgent[a]

\* C36 as stated: a frame or response that reports a finished task other than
\* the active one leaves the active task id of the agent unchanged
C36_ClearedOnlyByOwnTask ==
  [][\A k \in DOMAIN exchanges, p \in Frames :
       (Applies(k, p) /\ FinishesAnotherTask(exchanges[k].agent, p))
       => SameEntry(taskIdByAgent, taskIdByAgent', exchanges[k].agent)]_vars

\* C36: a frame or response with state completed, failed or canceled clears
\* the active task id of the exchange's agent whichever task id it carries,
\* the active one or another; a payload in any other state that does not set
\* the active task id leaves it unchanged
C36_TerminalObservationClears ==
  [][\A k \in DOMAIN exchanges, p \in Frames :
       Applies(k, p) =>
         /\ p.state \in FinishedStates => ~Has(taskIdByAgent', exchanges[k].agent)
         /\ (p.state \notin FinishedStates /\ p.state # "input-required")
              => SameEntry(taskIdByAgent, taskIdByAgent', exchanges[k].agent)]_vars

\* Task t1 asked for input and became the active task, task t2 was then
\* reported completed, and the agent is left without an active task
C36_Witness ==
  \E a \in AgentIds :
    /\ ~Has(taskIdByAgent, a)
    /\ \E i, j \in 1..Len(Get(trackedTasksByAgent, a, <<>>)) :
         /\ trackedTasksByAgent[a][i].taskId = "t1"
         /\ trackedTasksByAgent[a][i].state = "input-required"
         /\ trackedTasksByAgent[a][j].taskId = "t2"
         /\ trackedTasksByAgent[a][j].state = "completed"
         /\ trackedTasksByAgent[a][i].createdAt < trackedTasksByAgent[a][j].createdAt
    /\ fetches = {} /\ ~fetchingTask

\* --------------------------------------------------- chunks of the stream
\* C37: when the body has been read to its end, the exchange ends as the
\* frames the server sent determine, however the reads divided the body
C37_OutcomeIndependentOfChunks ==
  readerDone => OutcomeOf(applied) = OutcomeOf(FramesOf(streamBody))

\* The same when no read ended inside a line
C37_OutcomeOfWholeLines ==
  (readerDone /\ ~lineCut) => applied = FramesOf(streamBody)

\* ------------------------------------------------ re-targeting the polling
\* The i-th fetch in flight was issued for a task the hook no longer targets,
\* and the hook is polling another task
LateForOldTarget(i) ==
  /\ polls[i].abandoned
  /\ hook.phase = "mounted" /\ hook.enabled
  /\ hook.taskId # NoVal /\ hook.taskId # polls[i].taskId
  /\ hook.intervalRef # NoTimer

\* C38: the result of a fetch issued for the old target leaves the polling of
\* the new target as it is: its interval stays set and keeps firing
C38_LateResultLeavesNewTargetPolling ==
  [][\A i \in 1..Len(polls), taskState \in PollStates :
       (PollReply(i, taskState) /\ LateForOldTarget(i))
       => /\ hook'.intervalRef = hook.intervalRef
          /\ hook.intervalRef \in timers']_vars

\* The same for the results that report no terminal state, and for failures
C38_LateNonTerminalResultLeavesPolling ==
  [][\A i \in 1..Len(polls) :
       /\ \A taskState \in PollStates \ TERMINAL_STATES :
            (PollReply(i, taskState) /\ LateForOldTarget(i))
            => hook'.intervalRef = hook.intervalRef /\ hook.intervalRef \in timers'
       /\ \A error \in PollErrors :
            (PollFail(i, error) /\ LateForOldTarget(i))
            => hook'.intervalRef = hook.intervalRef /\ hook.intervalRef \in timers']_vars

====
